---- MODULE Spec2Model ----
(***************************************************************************)
(* CakeDb: a typed access layer over the redb key-value engine, with       *)
(* in-memory savepoints.  The model keeps the engine's committed state,    *)
(* the single writer slot with the uncommitted working copy of the write   *)
(* transaction that holds it, the savepoint index of the CakeDb struct,    *)
(* and, per calling thread, the position of the method it is executing.    *)
(* Every `?` of the source is an exit the engine may take (EngineFail).    *)
(***************************************************************************)
EXTENDS Integers, Sequences, FiniteSets, TLC

\* ----------------------------------------------------------------- bounds
MaxSavepoints == 2      \* savepoints held at once (caps savepoint())
MaxLen == 2             \* length of a batch operation's input sequence

\* ------------------------------------------------------- input universes
Threads == {1, 2}
NoThread == 0
PlainTables == {"T"}
MultiTables == {"M"}
\* Two u32 keys whose encodings, compared byte by byte, stand in the opposite
\* order of the keys.
Keys == {251, 256}
Values == {1, 2}
None == 0               \* Option::None for a value
EditFns == {"id", "bump"}

\* ---------------------------------------------------------- store values
EmptyRows == [k \in Keys |-> None]
NoTable == [exists |-> FALSE, rows |-> EmptyRows]
EmptyTable == [exists |-> TRUE, rows |-> EmptyRows]
EmptyMRows == [k \in Keys |-> {}]
NoMTable == [exists |-> FALSE, rows |-> EmptyMRows]
EmptyMTable == [exists |-> TRUE, rows |-> EmptyMRows]
EmptyStore == [plain |-> [t \in PlainTables |-> NoTable],
               multi |-> [t \in MultiTables |-> NoMTable]]
NoSavepoints == [i \in {} |-> EmptyStore]

\* The closure passed to update / batch_edit*: `edit(key, &mut value)`.
ApplyEdit(fn, k, v) == IF fn = "bump" THEN (IF v + 1 \in Values THEN v + 1 ELSE 1) ELSE v

\* --------------------------------------------- engine calls on a write txn
\* WriteTransaction::open_table creates the table when it is missing.
OpenTable(w, t) == IF w.plain[t].exists THEN w ELSE [w EXCEPT !.plain[t] = EmptyTable]
OpenMultimapTable(w, t) == IF w.multi[t].exists THEN w ELSE [w EXCEPT !.multi[t] = EmptyMTable]
TableGet(s, t, k) == s.plain[t].rows[k]
TableInsert(w, t, k, v) == [w EXCEPT !.plain[t].rows[k] = v]
TableRemove(w, t, k) == [w EXCEPT !.plain[t].rows[k] = None]
DeleteTable(w, t) == [w EXCEPT !.plain[t] = NoTable]
MultimapGet(s, t, k) == s.multi[t].rows[k]
MultimapInsert(w, t, k, v) == [w EXCEPT !.multi[t].rows[k] = @ \cup {v}]
MultimapRemove(w, t, k, v) == [w EXCEPT !.multi[t].rows[k] = @ \ {v}]
MultimapRemoveAll(w, t, k) == [w EXCEPT !.multi[t].rows[k] = {}]
DeleteMultimapTable(w, t) == [w EXCEPT !.multi[t] = NoMTable]

\* A faulty drop: the uncommitted working copy becomes visible.
AbortTxnPublishes(committed, work) == work
\* A WriteTransaction dropped without commit (every `?` before commit()):
\* the committed state stays what it was.
AbortTxn(committed, work) == committed

\* A faulty restore: the working copy is left as it is.
RestoreSavepointNoop(w, handle) == w
\* restore_savepoint: the working copy becomes the state the handle captured.
RestoreSavepoint(w, handle) == handle

\* `key = max_key + 1`, or 0 on an empty index.
MaxOf(S) == CHOOSE m \in S : \A x \in S : x <= m
\* A faulty key choice: one id is left out after the greatest.
NextKeySkips(sps) == IF DOMAIN sps = {} THEN 0 ELSE MaxOf(DOMAIN sps) + 2
NextKey(sps) == IF DOMAIN sps = {} THEN 0 ELSE MaxOf(DOMAIN sps) + 1

\* A faulty retain: every savepoint is kept.
RetainAll(sps, key) == sps
\* `self.savepoints.retain(|k, _| k <= &key)`
Retain(sps, key) == [i \in {j \in DOMAIN sps : j <= key} |-> sps[i]]

\* ------------------------------------------------------------ the methods
PlainReadOps == {"get", "contains_key", "table", "first", "last", "first_key", "last_key", "range"}
MultiReadOps == {"multimap_get", "multimap_table"}
PlainWriteOps == {"try_add", "insert", "update", "remove", "batch_try_add",
                  "batch_insert", "batch_edit", "batch_edit_fast",
                  "batch_edit_count", "clear_table"}
MultiWriteOps == {"multimap_insert", "multimap_insert_values",
                  "multimap_batch_insert", "multimap_assign", "multimap_remove",
                  "multimap_remove_all", "clear_multimap_table"}
SavepointOps == {"savepoint", "load_savepoint", "clear_savepoints"}
BatchOps == {"batch_try_add", "batch_insert", "batch_edit", "batch_edit_fast",
             "batch_edit_count", "multimap_batch_insert", "multimap_assign"}
ReadOnlyOps == PlainReadOps \cup MultiReadOps
MutatingOps == PlainWriteOps \cup MultiWriteOps
                 \cup {"delete_table", "delete_multimap_table", "savepoint", "load_savepoint"}
\* database(): the engine handed out by reference, for a client to run a
\* write transaction of its own on.
RawOps == {"database"}
\* Methods taking `&self`; every other method takes `&mut self`.
SharedRefOps == ReadOnlyOps \cup {"clear_table", "delete_table"} \cup RawOps

NoCall == [op |-> "none", t |-> "-", k |-> 0, v |-> 0, items |-> <<>>, fn |-> "id"]
NoLoc == [idx |-> 0, acc |-> 0, snap |-> EmptyStore, lost |-> FALSE, edits |-> 0, failed |-> {}]
NoResult == [kind |-> "none", val |-> 0]
NoPre == [db |-> EmptyStore, sp |-> NoSavepoints]
NoTx == [r |-> 0, w |-> 0]
NoPrev == [op |-> "none", t |-> "-", kind |-> "none"]
NoSp0 == [id |-> 0, state |-> EmptyStore, live |-> FALSE]

Ok(v) == [kind |-> "Ok", val |-> v]
Err(kind) == [kind |-> kind, val |-> 0]

\* ------------------------------------------------------ bincode_wrapper.rs
\* The trait methods the engine calls on stored bytes; the key type is u32.
CodecOps == {"as_bytes", "from_bytes", "compare"}

\* bincode::encode_to_vec(value, config::standard()) of a u32: below 251 the
\* value in one byte, else a marker byte and the value little-endian in two
\* (marker 251) or four (marker 252) bytes.
encode_to_vec(v) ==
  IF v < 251 THEN <<v>>
  ELSE IF v < 65536 THEN <<251, v % 256, v \div 256>>
  ELSE <<252, v % 256, (v \div 256) % 256, (v \div 65536) % 256, v \div 16777216>>

\* bincode::decode_from_slice(data, config::standard()) to a u32: the value
\* read from the front of the slice, or an error when the slice ends early or
\* its marker announces an integer wider than u32.
decode_from_slice(data) ==
  IF data = <<>> THEN Err("DecodeError")
  ELSE IF data[1] < 251 THEN Ok(data[1])
  ELSE IF data[1] = 251
    THEN IF Len(data) >= 3 THEN Ok(data[2] + 256 * data[3]) ELSE Err("DecodeError")
  ELSE IF data[1] = 252
    THEN IF Len(data) >= 5
           THEN Ok(data[2] + 256 * data[3] + 65536 * data[4] + 16777216 * data[5])
           ELSE Err("DecodeError")
  ELSE Err("DecodeError")

\* bincode::encode_to_vec(value, bincode::config::standard()).expect(..)
as_bytes(value) == encode_to_vec(value)

\* bincode::decode_from_slice(data, bincode::config::standard()).expect(..).0:
\* expect panics on a decode error.
from_bytes(data) ==
  IF decode_from_slice(data).kind = "Ok" THEN decode_from_slice(data) ELSE Err("Panic")

\* Ord::cmp of two u32: Less, Equal, Greater as -1, 0, 1.
Cmp(a, b) == IF a < b THEN -1 ELSE IF a = b THEN 0 ELSE 1

\* A faulty compare: the encodings are compared byte by byte.
RECURSIVE compare_bytes(_, _)
compare_bytes(data1, data2) ==
  IF data1 = <<>> \/ data2 = <<>>
    THEN Ok(Cmp(Len(data1), Len(data2)))
    ELSE IF data1[1] # data2[1] THEN Ok(Cmp(data1[1], data2[1]))
         ELSE compare_bytes(Tail(data1), Tail(data2))

\* Self::from_bytes(data1).cmp(&Self::from_bytes(data2))
compare(data1, data2) ==
  IF from_bytes(data1).kind = "Ok" /\ from_bytes(data2).kind = "Ok"
    THEN Ok(Cmp(from_bytes(data1).val, from_bytes(data2).val))
    ELSE Err("Panic")

\* The engine's ordered index: keys stand in the order compare gives their
\* encodings.
KeyLeq(a, b) == compare(as_bytes(a), as_bytes(b)).val <= 0
MinKey(S) == CHOOSE m \in S : \A x \in S : KeyLeq(m, x)
MaxKey(S) == CHOOSE m \in S : \A x \in S : KeyLeq(x, m)
RangeKeys(S, lo, hi) == {k \in S : KeyLeq(lo, k) /\ KeyLeq(k, hi)}
RECURSIVE Ordered(_)
Ordered(S) == IF S = {} THEN <<>> ELSE <<MinKey(S)>> \o Ordered(S \ {MinKey(S)})

VARIABLES
  db,          \* the engine's last committed state
  wtx,         \* working copy of the write transaction holding the writer slot
  writer,      \* the thread holding the writer slot, or NoThread
  savepoints,  \* CakeDb.savepoints: id -> the state its engine handle captured
  pc,          \* per thread: position in the method being executed
  call,        \* per thread: the method and its arguments
  loc,         \* per thread: the method's locals
  result,      \* per thread: what the method returned (at pc "done")
  pre,         \* per thread: store and index when the call started
  ntx,         \* per thread: read / write transactions begun by the call
  seen,        \* per thread: the states committed while the call runs
  issued,      \* ids savepoint() has returned so far
  removed,     \* ids that left the index (invalidated or cleared)
  sp0,         \* the latest savepoint() result and the state it was taken in
  prev         \* summary of the call that returned last

vars == <<db, wtx, writer, savepoints, pc, call, loc, result, pre, ntx, seen,
          issued, removed, sp0, prev>>
engineVars == <<db, wtx, writer>>
ghostVars == <<issued, removed, sp0>>

Init ==
  /\ db = EmptyStore
  /\ wtx = EmptyStore
  /\ writer = NoThread
  /\ savepoints = NoSavepoints
  /\ pc = [th \in Threads |-> "idle"]
  /\ call = [th \in Threads |-> NoCall]
  /\ loc = [th \in Threads |-> NoLoc]
  /\ result = [th \in Threads |-> NoResult]
  /\ pre = [th \in Threads |-> NoPre]
  /\ ntx = [th \in Threads |-> NoTx]
  /\ seen = [th \in Threads |-> {}]
  /\ issued = {}
  /\ removed = {}
  /\ sp0 = NoSp0
  /\ prev = NoPrev

\* ------------------------------------------------------------ transitions
Goto(th, p) == pc' = [pc EXCEPT ![th] = p]
Finish(th, r) == /\ pc' = [pc EXCEPT ![th] = "done"]
                 /\ result' = [result EXCEPT ![th] = r]

\* commit(): the working copy becomes the committed state, the slot is freed.
Publish(th) ==
  /\ writer = th
  /\ db' = wtx
  /\ wtx' = wtx
  /\ writer' = NoThread
  /\ seen' = [u \in Threads |-> IF pc[u] = "idle" THEN seen[u] ELSE seen[u] \cup {wtx}]

\* Rust's borrow rule: a `&mut self` method runs alone, `&self` methods overlap.
CanInvoke(th, c) ==
  \A u \in Threads \ {th} :
    pc[u] = "idle" \/ (c.op \in SharedRefOps /\ call[u].op \in SharedRefOps)

\* The value a method's result variable is declared with.
InitAcc(op) ==
  CASE op \in {"batch_insert", "batch_edit", "table"} -> EmptyRows
    [] op \in {"batch_try_add", "clear_multimap_table"} -> <<>>
    [] op \in {"multimap_insert_values", "multimap_assign"} -> FALSE
    [] OTHER -> 0

StartPc(op) ==
  CASE op \in ReadOnlyOps -> "begin_read"
    [] op \in CodecOps -> "codec"
    [] op = "load_savepoint" -> "ls_check"
    [] op = "clear_savepoints" -> "cs"
    [] OTHER -> "begin_write"

Invoke(th, c) ==
  /\ pc[th] = "idle"
  /\ CanInvoke(th, c)
  /\ c.op = "savepoint" => Cardinality(DOMAIN savepoints) < MaxSavepoints
  /\ Goto(th, StartPc(c.op))
  /\ call' = [call EXCEPT ![th] = c]
  /\ loc' = [loc EXCEPT ![th] = [NoLoc EXCEPT !.acc = InitAcc(c.op)]]
  /\ pre' = [pre EXCEPT ![th] = [db |-> db, sp |-> savepoints]]
  /\ seen' = [seen EXCEPT ![th] = {db}]
  /\ UNCHANGED <<engineVars, savepoints, result, ntx, ghostVars, prev>>

\* After begin_write()? each method goes on to its first engine call.
AfterBegin(op) ==
  CASE op = "savepoint" -> "sp_snap"
    [] op = "load_savepoint" -> "ls_restore"
    [] op \in {"delete_table", "delete_multimap_table"} -> "body"
    [] op = "clear_multimap_table" -> "cm_read"
    [] OTHER -> "open"

\* self.inner.begin_write()?: blocks while another write transaction is open.
begin_write(th) ==
  /\ pc[th] = "begin_write"
  /\ writer = NoThread
  /\ writer' = th
  /\ wtx' = db
  /\ ntx' = [ntx EXCEPT ![th].w = @ + 1]
  /\ Goto(th, AfterBegin(call[th].op))
  /\ UNCHANGED <<db, savepoints, call, loc, result, pre, seen, ghostVars, prev>>

\* The methods whose body is a `for` loop over the input, one step an item.
LoopOps == {"batch_try_add", "batch_insert", "batch_edit", "batch_edit_fast",
            "batch_edit_count", "multimap_insert_values", "multimap_batch_insert",
            "multimap_assign", "clear_multimap_table"} \cup RawOps
RECURSIVE Flatten(_)
\* multimap_batch_insert's nested loops, as the sequence of (key, value) inserts.
Flatten(data) ==
  IF data = <<>> THEN <<>>
  ELSE LET k == Head(data)[1]
           vs == Head(data)[2]
       IN [i \in 1..Len(vs) |-> <<k, vs[i]>>] \o Flatten(Tail(data))
\* What the method's loop iterates over.
LoopItems(th) ==
  CASE call[th].op = "clear_multimap_table" -> loc[th].acc
    [] call[th].op = "multimap_batch_insert" -> Flatten(call[th].items)
    [] OTHER -> call[th].items
LoopPc(th, done) == IF done = Len(LoopItems(th)) THEN "commit" ELSE "body"
AfterOpen(th) ==
  CASE call[th].op \in {"multimap_insert_values", "multimap_assign"} -> "body0"
    [] call[th].op \in LoopOps -> LoopPc(th, 0)
    [] OTHER -> "body"

\* transaction.open_table(table_def)? / open_multimap_table(table_def)?
open_table(th) ==
  /\ pc[th] = "open"
  /\ writer = th
  /\ wtx' = IF call[th].op \in PlainWriteOps \cup RawOps
              THEN OpenTable(wtx, call[th].t)
              ELSE OpenMultimapTable(wtx, call[th].t)
  /\ Goto(th, AfterOpen(th))
  /\ UNCHANGED <<db, writer, savepoints, call, loc, result, pre, ntx, seen, ghostVars, prev>>

\* transaction.commit()?; Ok(<the value the body computed>)
commit(th) ==
  /\ pc[th] = "commit"
  /\ Publish(th)
  /\ Finish(th, Ok(loc[th].acc))
  /\ UNCHANGED <<savepoints, call, loc, pre, ntx, ghostVars, prev>>

\* Any engine call of the method fails: `?` returns the error, the write
\* transaction (if the call holds one) is dropped uncommitted.
FailPcs == {"begin_write", "open", "body0", "body", "commit", "sp_snap", "sp_commit",
            "ls_restore", "ls_commit", "begin_read", "ropen", "rbody",
            "rt_begin_write", "rt_create", "rt_commit", "rt_begin_read2",
            "rt_reopen", "mopen", "mbody", "cm_read"}

EngineFail(th) ==
  /\ pc[th] \in FailPcs
  /\ IF writer = th
       THEN /\ db' = AbortTxn(db, wtx)
            /\ wtx' = db'
            /\ writer' = NoThread
            /\ loc' = [loc EXCEPT ![th].lost = (wtx # db)]
       ELSE UNCHANGED <<engineVars, loc>>
  /\ Finish(th, Err("EngineErr"))
  /\ UNCHANGED <<savepoints, call, pre, ntx, seen, ghostVars, prev>>

\* The caller takes the result; `tracked` are the methods whose success the
\* next call's claims refer to; of a plain read, whether the table was
\* missing at the call.
Return(th, tracked) ==
  /\ pc[th] = "done"
  /\ Goto(th, "idle")
  /\ prev' = IF call[th].op \in tracked /\ result[th].kind = "Ok"
               THEN [op |-> IF call[th].op \notin PlainReadOps THEN call[th].op
                            ELSE IF pre[th].db.plain[call[th].t].exists
                                   THEN "read" ELSE "read_missing",
                     t |-> call[th].t, kind |-> result[th].kind]
               ELSE NoPrev
  /\ call' = [call EXCEPT ![th] = NoCall]
  /\ loc' = [loc EXCEPT ![th] = NoLoc]
  /\ result' = [result EXCEPT ![th] = NoResult]
  /\ pre' = [pre EXCEPT ![th] = NoPre]
  /\ ntx' = [ntx EXCEPT ![th] = NoTx]
  /\ seen' = [seen EXCEPT ![th] = {}]
  /\ UNCHANGED <<engineVars, savepoints, ghostVars>>

\* ------------------------------------------------------- save.rs: savepoints
\* A faulty savepoint(): taking the engine's savepoint creates the tables.
savepoint_snap_creates_tables(th) ==
  /\ pc[th] = "sp_snap"
  /\ writer = th
  /\ wtx' = [wtx EXCEPT !.plain = [t \in PlainTables |-> OpenTable(wtx, t).plain[t]]]
  /\ loc' = [loc EXCEPT ![th].snap = wtx]
  /\ Goto(th, "sp_commit")
  /\ UNCHANGED <<db, writer, savepoints, call, result, pre, ntx, seen, ghostVars, prev>>

\* write.ephemeral_savepoint()?
savepoint_snap(th) ==
  /\ pc[th] = "sp_snap"
  /\ writer = th
  /\ loc' = [loc EXCEPT ![th].snap = wtx]
  /\ Goto(th, "sp_commit")
  /\ UNCHANGED <<engineVars, savepoints, call, result, pre, ntx, seen, ghostVars, prev>>

\* write.commit()?; key = max_key + 1 or 0; self.savepoints.insert(key, ..); Ok(key)
savepoint(th) ==
  /\ pc[th] = "sp_commit"
  /\ Publish(th)
  /\ LET key == NextKey(savepoints) IN
       /\ savepoints' = [i \in DOMAIN savepoints \cup {key} |->
                           IF i = key THEN loc[th].snap ELSE savepoints[i]]
       /\ Finish(th, Ok(key))
       /\ issued' = issued \cup {key}
       /\ sp0' = [id |-> key, state |-> pre[th].db, live |-> TRUE]
  /\ UNCHANGED <<call, loc, pre, ntx, removed, prev>>

\* A faulty load_savepoint: the write transaction begun before the lookup.
load_savepoint_txn_first(th) ==
  /\ pc[th] = "ls_check"
  /\ ntx' = [ntx EXCEPT ![th].w = @ + 1]
  /\ sp0' = IF call[th].k = sp0.id THEN sp0 ELSE NoSp0
  /\ IF call[th].k \in DOMAIN savepoints
       THEN /\ writer = NoThread
            /\ writer' = th
            /\ wtx' = db
            /\ Goto(th, "ls_restore")
            /\ UNCHANGED result
       ELSE /\ Finish(th, Err("NotFound"))
            /\ UNCHANGED <<wtx, writer>>
  /\ UNCHANGED <<db, savepoints, call, loc, pre, seen, issued, removed, prev>>

\* let Some(save) = self.savepoints.get(&key) else { return Err(..) };
load_savepoint_check(th) ==
  /\ pc[th] = "ls_check"
  /\ sp0' = IF call[th].k = sp0.id THEN sp0 ELSE NoSp0
  /\ IF call[th].k \in DOMAIN savepoints
       THEN Goto(th, "begin_write") /\ UNCHANGED result
       ELSE Finish(th, Err("NotFound"))
  /\ UNCHANGED <<engineVars, savepoints, call, loc, pre, ntx, seen, issued, removed, prev>>

\* A faulty load_savepoint: the later savepoints are removed at the restore,
\* before the commit.
load_savepoint_restore_invalidates(th) ==
  /\ pc[th] = "ls_restore"
  /\ writer = th
  /\ wtx' = RestoreSavepoint(wtx, savepoints[call[th].k])
  /\ savepoints' = Retain(savepoints, call[th].k)
  /\ removed' = removed \cup (DOMAIN savepoints \ DOMAIN savepoints')
  /\ Goto(th, "ls_commit")
  /\ UNCHANGED <<db, writer, call, loc, result, pre, ntx, seen, issued, sp0, prev>>

\* transaction.restore_savepoint(&save.savepoint)?
load_savepoint_restore(th) ==
  /\ pc[th] = "ls_restore"
  /\ writer = th
  /\ wtx' = RestoreSavepoint(wtx, savepoints[call[th].k])
  /\ Goto(th, "ls_commit")
  /\ UNCHANGED <<db, writer, savepoints, call, loc, result, pre, ntx, seen, ghostVars, prev>>

\* transaction.commit()?; self.savepoints.retain(|k, _| k <= &key); Ok(())
load_savepoint(th) ==
  /\ pc[th] = "ls_commit"
  /\ Publish(th)
  /\ savepoints' = Retain(savepoints, call[th].k)
  /\ removed' = removed \cup (DOMAIN savepoints \ DOMAIN savepoints')
  /\ Finish(th, Ok(0))
  /\ UNCHANGED <<call, loc, pre, ntx, issued, sp0, prev>>

\* self.savepoints.clear()
clear_savepoints(th) ==
  /\ pc[th] = "cs"
  /\ savepoints' = NoSavepoints
  /\ removed' = removed \cup DOMAIN savepoints
  /\ sp0' = NoSp0
  /\ Finish(th, Ok(0))
  /\ UNCHANGED <<engineVars, call, loc, pre, ntx, seen, issued, prev>>

\* ------------------------------------------- generic/writes.rs: one key
\* What a step inside the write transaction leaves alone.
bodyFrame == <<db, writer, savepoints, call, result, pre, ntx, seen, ghostVars, prev>>
InBody(th, op) == pc[th] = "body" /\ call[th].op = op /\ writer = th
Body(th, w, a, next) ==
  /\ wtx' = w
  /\ loc' = [loc EXCEPT ![th].acc = a]
  /\ Goto(th, next)
  /\ UNCHANGED bodyFrame
\* One iteration of a method's `for` loop.
Iterate(th, w, a) ==
  /\ wtx' = w
  /\ loc' = [loc EXCEPT ![th].acc = a, ![th].idx = @ + 1]
  /\ Goto(th, LoopPc(th, loc[th].idx + 1))
  /\ UNCHANGED bodyFrame
\* A table operation that follows a call of the `edit` closure.
Edited(th, w, a, next) ==
  /\ wtx' = w
  /\ loc' = [loc EXCEPT ![th].acc = a, ![th].edits = @ + 1]
  /\ Goto(th, next)
  /\ UNCHANGED bodyFrame
\* One iteration of a `for` loop in which the `edit` closure is called.
IterateEdited(th, w, a) ==
  /\ wtx' = w
  /\ loc' = [loc EXCEPT ![th].acc = a, ![th].idx = @ + 1, ![th].edits = @ + 1]
  /\ Goto(th, LoopPc(th, loc[th].idx + 1))
  /\ UNCHANGED bodyFrame
\* A faulty early return: the write transaction is kept open.
EarlyReturnKeepsTxn(th, r) ==
  /\ Finish(th, r)
  /\ UNCHANGED <<engineVars, savepoints, call, loc, pre, ntx, seen, ghostVars, prev>>

\* `return Err(..)` with the write transaction open: it is dropped uncommitted.
EarlyReturn(th, r) ==
  /\ db' = AbortTxn(db, wtx)
  /\ wtx' = db'
  /\ writer' = NoThread
  /\ loc' = [loc EXCEPT ![th].lost = (wtx # db)]
  /\ Finish(th, r)
  /\ UNCHANGED <<savepoints, call, pre, ntx, seen, ghostVars, prev>>

\* A faulty try_add: the presence check made through self.get(), a read
\* transaction of its own.
try_add_checks_by_get(th) ==
  /\ InBody(th, "try_add")
  /\ LET c == call[th] IN
       /\ wtx' = IF TableGet(wtx, c.t, c.k) = None THEN TableInsert(wtx, c.t, c.k, c.v) ELSE wtx
       /\ loc' = [loc EXCEPT ![th].acc = (TableGet(wtx, c.t, c.k) = None)]
  /\ ntx' = [ntx EXCEPT ![th].r = @ + 1]
  /\ Goto(th, "commit")
  /\ UNCHANGED <<db, writer, savepoints, call, result, pre, seen, ghostVars, prev>>

\* A faulty try_add: the value is stored whether or not the key is present.
try_add_overwrites(th) ==
  /\ InBody(th, "try_add")
  /\ LET c == call[th] IN
       Body(th, TableInsert(wtx, c.t, c.k, c.v), TableGet(wtx, c.t, c.k) = None, "commit")

\* if table.get(key)?.is_none() { table.insert(key, value)?; true } else { false }
try_add(th) ==
  /\ InBody(th, "try_add")
  /\ LET c == call[th] IN
       IF TableGet(wtx, c.t, c.k) = None
         THEN Body(th, TableInsert(wtx, c.t, c.k, c.v), TRUE, "commit")
         ELSE Body(th, wtx, FALSE, "commit")

\* old_value = table.insert(key, value)?.map(|guard| guard.value())
insert(th) ==
  /\ InBody(th, "insert")
  /\ LET c == call[th] IN
       Body(th, TableInsert(wtx, c.t, c.k, c.v), TableGet(wtx, c.t, c.k), "commit")

\* A faulty update: a missing key is given the edit of a first value.
update_inserts_missing(th) ==
  /\ InBody(th, "update")
  /\ LET c == call[th]
         found == TableGet(wtx, c.t, c.k)
         value == IF found = None THEN CHOOSE v \in Values : TRUE ELSE found
     IN Edited(th, TableInsert(wtx, c.t, c.k, ApplyEdit(c.fn, c.k, value)), value, "commit")

\* let Some(value) = table.get(key)? else { return Err(key_not_found) };
\* edit(&mut edited); old_value = table.insert(key, edited)?
update(th) ==
  /\ InBody(th, "update")
  /\ LET c == call[th]
         value == TableGet(wtx, c.t, c.k)
     IN IF value = None
          THEN EarlyReturn(th, Err("NotFound"))
          ELSE Edited(th, TableInsert(wtx, c.t, c.k, ApplyEdit(c.fn, c.k, value)), value, "commit")

\* A faulty remove: the savepoints taken so far are forgotten with the entry.
remove_forgets_savepoints(th) ==
  /\ InBody(th, "remove")
  /\ wtx' = TableRemove(wtx, call[th].t, call[th].k)
  /\ loc' = [loc EXCEPT ![th].acc = TableGet(wtx, call[th].t, call[th].k)]
  /\ savepoints' = NoSavepoints
  /\ Goto(th, "commit")
  /\ UNCHANGED <<db, writer, call, result, pre, ntx, seen, ghostVars, prev>>

\* old_value = table.remove(key)?.map(|guard| guard.value())
remove(th) ==
  /\ InBody(th, "remove")
  /\ LET c == call[th] IN
       Body(th, TableRemove(wtx, c.t, c.k), TableGet(wtx, c.t, c.k), "commit")

\* ------------------------------------------ generic/batch_writes.rs: batches
Item(th) == LoopItems(th)[loc[th].idx + 1]

\* A faulty batch_try_add: presence checked in the state before the batch.
batch_try_add_checks_committed(th) ==
  /\ InBody(th, "batch_try_add")
  /\ LET t == call[th].t
         key == Item(th)[1]
         value == Item(th)[2]
     IN IF TableGet(db, t, key) = None
          THEN Iterate(th, TableInsert(wtx, t, key, value), loc[th].acc)
          ELSE Iterate(th, wtx, Append(loc[th].acc, key))

\* if table.get(&key)?.is_none() { table.insert(key, value)? } else { existing.push(key) }
batch_try_add(th) ==
  /\ InBody(th, "batch_try_add")
  /\ LET t == call[th].t
         key == Item(th)[1]
         value == Item(th)[2]
     IN IF TableGet(wtx, t, key) = None
          THEN Iterate(th, TableInsert(wtx, t, key, value), loc[th].acc)
          ELSE Iterate(th, wtx, Append(loc[th].acc, key))

\* A faulty batch_insert: a pair is inserted only when its key is absent.
batch_insert_keeps_first(th) ==
  /\ InBody(th, "batch_insert")
  /\ LET t == call[th].t
         key == Item(th)[1]
         value == Item(th)[2]
         old == TableGet(wtx, t, key)
     IN IF old = None
          THEN Iterate(th, TableInsert(wtx, t, key, value), loc[th].acc)
          ELSE Iterate(th, wtx, [loc[th].acc EXCEPT ![key] = old])

\* if let Some(value) = table.insert(&key, value)? { old_pairs.insert(key, value.value()); }
batch_insert(th) ==
  /\ InBody(th, "batch_insert")
  /\ LET t == call[th].t
         key == Item(th)[1]
         value == Item(th)[2]
         old == TableGet(wtx, t, key)
     IN Iterate(th, TableInsert(wtx, t, key, value),
                IF old # None THEN [loc[th].acc EXCEPT ![key] = old] ELSE loc[th].acc)

\* let Some(value) = table.get(key)? else { continue }; edit(key, &mut edited);
\* if let Some(old_value) = table.insert(key, edited)? { old_pairs.insert(key.clone(), ..) }
batch_edit(th) ==
  /\ InBody(th, "batch_edit")
  /\ LET t == call[th].t
         key == Item(th)
         value == TableGet(wtx, t, key)
     IN IF value = None
          THEN Iterate(th, wtx, loc[th].acc)
          ELSE IterateEdited(th, TableInsert(wtx, t, key, ApplyEdit(call[th].fn, key, value)),
                             [loc[th].acc EXCEPT ![key] = value])

\* A faulty batch_edit_fast: the edit applied to the value before the batch.
batch_edit_fast_from_committed(th) ==
  /\ InBody(th, "batch_edit_fast")
  /\ LET t == call[th].t
         key == Item(th)
         value == TableGet(db, t, key)
     IN IF value = None
          THEN Iterate(th, wtx, loc[th].acc)
          ELSE IterateEdited(th, TableInsert(wtx, t, key, ApplyEdit(call[th].fn, key, value)),
                             loc[th].acc)

\* as batch_edit, with `table.insert(key, edited)?;` and no map of old pairs
batch_edit_fast(th) ==
  /\ InBody(th, "batch_edit_fast")
  /\ LET t == call[th].t
         key == Item(th)
         value == TableGet(wtx, t, key)
     IN IF value = None
          THEN Iterate(th, wtx, loc[th].acc)
          ELSE IterateEdited(th, TableInsert(wtx, t, key, ApplyEdit(call[th].fn, key, value)),
                             loc[th].acc)

\* A faulty batch_edit_count: every edit of a present key is counted.
batch_edit_count_counts_all(th) ==
  /\ InBody(th, "batch_edit_count")
  /\ LET t == call[th].t
         key == Item(th)
         value == TableGet(wtx, t, key)
     IN IF value = None
          THEN Iterate(th, wtx, loc[th].acc)
          ELSE IterateEdited(th, TableInsert(wtx, t, key, ApplyEdit(call[th].fn, key, value)),
                             loc[th].acc + 1)

\* if let Some(old_value) = table.insert(key, edited.clone())? {
\*     if old_value.value() != edited { count += 1 } }
batch_edit_count(th) ==
  /\ InBody(th, "batch_edit_count")
  /\ LET t == call[th].t
         key == Item(th)
         value == TableGet(wtx, t, key)
         edited == ApplyEdit(call[th].fn, key, value)
     IN IF value = None
          THEN Iterate(th, wtx, loc[th].acc)
          ELSE IterateEdited(th, TableInsert(wtx, t, key, edited),
                             IF value # edited THEN loc[th].acc + 1 ELSE loc[th].acc)

\* A faulty clear_table: the table is deleted with its entries.
clear_table_by_delete(th) ==
  /\ InBody(th, "clear_table")
  /\ Body(th, DeleteTable(wtx, call[th].t), 0, "commit")

\* table.retain(|_, _| false)?
clear_table(th) ==
  /\ InBody(th, "clear_table")
  /\ Body(th, [wtx EXCEPT !.plain[call[th].t].rows = EmptyRows], 0, "commit")

\* A faulty delete_table: the entries are removed, the table is kept.
delete_table_by_clear(th) ==
  /\ InBody(th, "delete_table")
  /\ Body(th, [wtx EXCEPT !.plain[call[th].t].rows = EmptyRows],
          wtx.plain[call[th].t].exists, "commit")

\* existed = transaction.delete_table(table_def)?
delete_table(th) ==
  /\ InBody(th, "delete_table")
  /\ Body(th, DeleteTable(wtx, call[th].t), wtx.plain[call[th].t].exists, "commit")

\* ------------------------------------------------- lib.rs: database()
\* A client's write transaction on the engine database() returns: the pairs
\* inserted one by one, then committed together (or dropped on a failure).
database(th) ==
  /\ InBody(th, "database")
  /\ Iterate(th, TableInsert(wtx, call[th].t, Item(th)[1], Item(th)[2]), loc[th].acc)

\* --------------------------------------- generic/multimap_writes.rs
\* The values of a set in ascending order (the engine's iteration order).
RECURSIVE Ascending(_)
Ascending(S) ==
  IF S = {} THEN <<>>
  ELSE LET m == CHOOSE x \in S : \A y \in S : x <= y IN <<m>> \o Ascending(S \ {m})

\* A faulty multimap_insert: it returns whether the pair was newly added.
multimap_insert_reports_new(th) ==
  /\ InBody(th, "multimap_insert")
  /\ LET c == call[th] IN
       Body(th, MultimapInsert(wtx, c.t, c.k, c.v), c.v \notin MultimapGet(wtx, c.t, c.k), "commit")

\* existed = table.insert(key, value)?
multimap_insert(th) ==
  /\ InBody(th, "multimap_insert")
  /\ LET c == call[th] IN
       Body(th, MultimapInsert(wtx, c.t, c.k, c.v), c.v \in MultimapGet(wtx, c.t, c.k), "commit")

\* if !table.get(key)?.is_empty() { existed = true }
multimap_insert_values_check(th) ==
  /\ pc[th] = "body0" /\ call[th].op = "multimap_insert_values" /\ writer = th
  /\ Body(th, wtx, MultimapGet(wtx, call[th].t, call[th].k) # {}, LoopPc(th, 0))

\* for v in values { table.insert(key, v)?; }
multimap_insert_values(th) ==
  /\ InBody(th, "multimap_insert_values")
  /\ Iterate(th, MultimapInsert(wtx, call[th].t, call[th].k, Item(th)), loc[th].acc)

\* for (k, v) in data { for v in v { table.insert(&k, v)?; } }
multimap_batch_insert(th) ==
  /\ InBody(th, "multimap_batch_insert")
  /\ Iterate(th, MultimapInsert(wtx, call[th].t, Item(th)[1], Item(th)[2]), loc[th].acc)

\* A faulty multimap_assign: the values the key holds are not removed.
multimap_assign_keeps_old(th) ==
  /\ pc[th] = "body0" /\ call[th].op = "multimap_assign" /\ writer = th
  /\ Body(th, wtx, MultimapGet(wtx, call[th].t, call[th].k) # {}, LoopPc(th, 0))

\* if !table.remove_all(key)?.is_empty() { existed = true }
multimap_assign_remove_all(th) ==
  /\ pc[th] = "body0" /\ call[th].op = "multimap_assign" /\ writer = th
  /\ LET c == call[th] IN
       Body(th, MultimapRemoveAll(wtx, c.t, c.k), MultimapGet(wtx, c.t, c.k) # {}, LoopPc(th, 0))

\* for v in values { table.insert(key, v)?; }
multimap_assign(th) ==
  /\ InBody(th, "multimap_assign")
  /\ Iterate(th, MultimapInsert(wtx, call[th].t, call[th].k, Item(th)), loc[th].acc)

\* A faulty multimap_remove: every value of the key is removed.
multimap_remove_drops_key(th) ==
  /\ InBody(th, "multimap_remove")
  /\ LET c == call[th] IN
       Body(th, MultimapRemoveAll(wtx, c.t, c.k), c.v \in MultimapGet(wtx, c.t, c.k), "commit")

\* existed = table.remove(key, value)?
multimap_remove(th) ==
  /\ InBody(th, "multimap_remove")
  /\ LET c == call[th] IN
       Body(th, MultimapRemove(wtx, c.t, c.k, c.v), c.v \in MultimapGet(wtx, c.t, c.k), "commit")

\* values = table.remove_all(key)?.flatten().map(|v| v.value()).collect()
multimap_remove_all(th) ==
  /\ InBody(th, "multimap_remove_all")
  /\ LET c == call[th] IN
       Body(th, MultimapRemoveAll(wtx, c.t, c.k), Ordered(MultimapGet(wtx, c.t, c.k)), "commit")

\* let reference = self.multimap_table(table_def)?;  -- a read transaction of
\* its own, begun while the write transaction is held; it reads the last
\* committed state and fails when the table was never created.
clear_multimap_table_read(th) ==
  /\ pc[th] = "cm_read"
  /\ writer = th
  /\ ntx' = [ntx EXCEPT ![th].r = @ + 1]
  /\ LET m == db.multi[call[th].t] IN
       IF m.exists
         THEN /\ loc' = [loc EXCEPT ![th].acc = Ascending({k \in Keys : m.rows[k] # {}}),
                                    ![th].snap = db]
              /\ Goto(th, "open")
              /\ UNCHANGED <<engineVars, result>>
         ELSE /\ db' = AbortTxn(db, wtx)
              /\ wtx' = db'
              /\ writer' = NoThread
              /\ loc' = [loc EXCEPT ![th].snap = db]
              /\ Finish(th, Err("TableDoesNotExist"))
  /\ UNCHANGED <<savepoints, call, pre, seen, ghostVars, prev>>

\* A faulty clear_multimap_table: of each key only the least value is removed.
clear_multimap_table_removes_one(th) ==
  /\ InBody(th, "clear_multimap_table")
  /\ LET c == call[th]
         vs == MultimapGet(wtx, c.t, Item(th))
     IN Iterate(th, IF vs = {} THEN wtx
                    ELSE MultimapRemove(wtx, c.t, Item(th), Head(Ascending(vs))),
                loc[th].acc)

\* for k in reference.keys() { table.remove_all(k)?; }
clear_multimap_table(th) ==
  /\ InBody(th, "clear_multimap_table")
  /\ Iterate(th, MultimapRemoveAll(wtx, call[th].t, Item(th)), loc[th].acc)

\* existed = transaction.delete_multimap_table(table_def)?
delete_multimap_table(th) ==
  /\ InBody(th, "delete_multimap_table")
  /\ Body(th, DeleteMultimapTable(wtx, call[th].t), wtx.multi[call[th].t].exists, "commit")

\* ------------------------------------------- generic/internal.rs: read-open
readFrame == <<savepoints, call, result, pre, seen, ghostVars, prev>>

\* self.inner.begin_read()?: a snapshot of the last committed state
begin_read(th) ==
  /\ pc[th] = "begin_read"
  /\ loc' = [loc EXCEPT ![th].snap = db]
  /\ ntx' = [ntx EXCEPT ![th].r = @ + 1]
  /\ Goto(th, IF call[th].op \in PlainReadOps THEN "ropen" ELSE "mopen")
  /\ UNCHANGED <<engineVars, readFrame>>

\* A faulty read_table: a missing table is an error, as for multimap tables.
read_table_open_no_create(th) ==
  /\ pc[th] = "ropen"
  /\ IF loc[th].snap.plain[call[th].t].exists
       THEN Goto(th, "rbody") /\ UNCHANGED result
       ELSE Finish(th, Err("TableDoesNotExist"))
  /\ UNCHANGED <<engineVars, savepoints, call, loc, pre, ntx, seen, ghostVars, prev>>

\* match read.open_table(table_def) { Err(TableDoesNotExist(_)) => .., Ok(table) => Ok(table) }
read_table_open(th) ==
  /\ pc[th] = "ropen"
  /\ Goto(th, IF loc[th].snap.plain[call[th].t].exists THEN "rbody" ELSE "rt_begin_write")
  /\ UNCHANGED <<engineVars, loc, ntx, readFrame>>

\* let write = self.inner.begin_write()?
read_table_begin_write(th) ==
  /\ pc[th] = "rt_begin_write"
  /\ writer = NoThread
  /\ writer' = th
  /\ wtx' = db
  /\ ntx' = [ntx EXCEPT ![th].w = @ + 1]
  /\ Goto(th, "rt_create")
  /\ UNCHANGED <<db, loc, readFrame>>

\* A faulty creation step: the table is created anew, without entries.
read_table_create_fresh(th) ==
  /\ pc[th] = "rt_create"
  /\ writer = th
  /\ wtx' = [wtx EXCEPT !.plain[call[th].t] = EmptyTable]
  /\ Goto(th, "rt_commit")
  /\ UNCHANGED <<db, writer, loc, ntx, readFrame>>

\* write.open_table(table_def)?
read_table_create(th) ==
  /\ pc[th] = "rt_create"
  /\ writer = th
  /\ wtx' = OpenTable(wtx, call[th].t)
  /\ Goto(th, "rt_commit")
  /\ UNCHANGED <<db, writer, loc, ntx, readFrame>>

\* write.commit()?
read_table_commit(th) ==
  /\ pc[th] = "rt_commit"
  /\ Publish(th)
  /\ Goto(th, "rt_begin_read2")
  /\ UNCHANGED <<savepoints, call, loc, result, pre, ntx, ghostVars, prev>>

\* let read = self.inner.begin_read()?   (the second read transaction)
read_table_begin_read2(th) ==
  /\ pc[th] = "rt_begin_read2"
  /\ loc' = [loc EXCEPT ![th].snap = db]
  /\ ntx' = [ntx EXCEPT ![th].r = @ + 1]
  /\ Goto(th, "rt_reopen")
  /\ UNCHANGED <<engineVars, readFrame>>

\* let table = read.open_table(table_def).map_err(..)?
read_table_reopen(th) ==
  /\ pc[th] = "rt_reopen"
  /\ IF loc[th].snap.plain[call[th].t].exists
       THEN Goto(th, "rbody") /\ UNCHANGED result
       ELSE Finish(th, Err("TableDoesNotExist"))
  /\ UNCHANGED <<engineVars, savepoints, call, loc, pre, ntx, seen, ghostVars, prev>>

\* read_multimap_table: begin_read()?.open_multimap_table(table_def)? -- no creation
read_multimap_table_open(th) ==
  /\ pc[th] = "mopen"
  /\ IF loc[th].snap.multi[call[th].t].exists
       THEN Goto(th, "mbody") /\ UNCHANGED result
       ELSE Finish(th, Err("TableDoesNotExist"))
  /\ UNCHANGED <<engineVars, savepoints, call, loc, pre, ntx, seen, ghostVars, prev>>

\* -------------------------------------------------- generic/reads.rs
doneFrame == <<engineVars, savepoints, call, loc, pre, ntx, seen, ghostVars, prev>>
InRead(th, op) == pc[th] = "rbody" /\ call[th].op = op
\* A faulty read: the table as last committed, not as opened.
ReadTableDirty(th) == db.plain[call[th].t]
\* The table a read method works on: the one opened in its read transaction.
ReadTable(th) == loc[th].snap.plain[call[th].t]
KeysOf(tb) == {k \in Keys : tb.rows[k] # None}
MinOf(S) == CHOOSE m \in S : \A x \in S : m <= x

\* A faulty get: the key is ignored, the first entry's value is returned.
get_ignores_key(th) ==
  /\ InRead(th, "get")
  /\ Finish(th, Ok(IF KeysOf(ReadTable(th)) = {} THEN None
                   ELSE ReadTable(th).rows[MinOf(KeysOf(ReadTable(th)))]))
  /\ UNCHANGED doneFrame

\* Ok(self.read_table(table_def)?.get(key)?.map(|g| g.value()))
get(th) ==
  /\ InRead(th, "get")
  /\ Finish(th, Ok(ReadTable(th).rows[call[th].k]))
  /\ UNCHANGED doneFrame

\* Ok(self.read_table(table_def)?.get(key)?.is_some())
contains_key(th) ==
  /\ InRead(th, "contains_key")
  /\ Finish(th, Ok(ReadTable(th).rows[call[th].k] # None))
  /\ UNCHANGED doneFrame

\* self.read_table(table_def)?.iter()?...collect(): entries in ascending key
\* order, one step an entry; the last step returns the collected map.
table(th) ==
  /\ InRead(th, "table")
  /\ LET ks == Ascending(Keys)
         k == ks[loc[th].idx + 1]
         got == [loc[th].acc EXCEPT ![k] = ReadTable(th).rows[k]]
     IN IF loc[th].idx + 1 = Len(ks)
          THEN /\ Finish(th, Ok(got))
               /\ loc' = [loc EXCEPT ![th].acc = got, ![th].idx = @ + 1]
          ELSE /\ loc' = [loc EXCEPT ![th].acc = got, ![th].idx = @ + 1]
               /\ UNCHANGED <<pc, result>>
  /\ UNCHANGED <<engineVars, savepoints, call, pre, ntx, seen, ghostVars, prev>>

\* .iter()?.filter_map(Result::ok): the engine reports a failure for the entry
\* the scan stands at; the entry is dropped and the scan goes on.
table_entry_fails(th) ==
  /\ InRead(th, "table")
  /\ LET ks == Ascending(Keys)
         k == ks[loc[th].idx + 1]
     IN /\ ReadTable(th).rows[k] # None
        /\ loc' = [loc EXCEPT ![th].idx = @ + 1, ![th].failed = @ \cup {k}]
        /\ IF loc[th].idx + 1 = Len(ks)
             THEN Finish(th, Ok(loc[th].acc))
             ELSE UNCHANGED <<pc, result>>
  /\ UNCHANGED <<engineVars, savepoints, call, pre, ntx, seen, ghostVars, prev>>

\* Ok(self.read_table(table_def)?.first()?.map(|(kg, vg)| (kg.value(), vg.value())))
first(th) ==
  /\ InRead(th, "first")
  /\ LET ks == KeysOf(ReadTable(th)) IN
       Finish(th, Ok(IF ks = {} THEN <<>> ELSE <<MinKey(ks), ReadTable(th).rows[MinKey(ks)]>>))
  /\ UNCHANGED doneFrame

\* Ok(self.read_table(table_def)?.last()?.map(|(kg, vg)| (kg.value(), vg.value())))
last(th) ==
  /\ InRead(th, "last")
  /\ LET ks == KeysOf(ReadTable(th)) IN
       Finish(th, Ok(IF ks = {} THEN <<>> ELSE <<MaxKey(ks), ReadTable(th).rows[MaxKey(ks)]>>))
  /\ UNCHANGED doneFrame

\* Ok(self.read_table(table_def)?.first()?.map(|(kg, _)| kg.value()))
first_key(th) ==
  /\ InRead(th, "first_key")
  /\ LET ks == KeysOf(ReadTable(th)) IN
       Finish(th, Ok(IF ks = {} THEN <<>> ELSE <<MinKey(ks)>>))
  /\ UNCHANGED doneFrame

\* Ok(self.read_table(table_def)?.last()?.map(|(kg, _)| kg.value()))
last_key(th) ==
  /\ InRead(th, "last_key")
  /\ LET ks == KeysOf(ReadTable(th)) IN
       Finish(th, Ok(IF ks = {} THEN <<>> ELSE <<MaxKey(ks)>>))
  /\ UNCHANGED doneFrame

\* Ok(self.read_table(table_def)?.range(range)?...collect()), the range
\* being call.k ..= call.v
range(th) ==
  /\ InRead(th, "range")
  /\ LET tb == ReadTable(th)
         within == RangeKeys(KeysOf(tb), call[th].k, call[th].v)
     IN Finish(th, Ok([k \in Keys |-> IF k \in within THEN tb.rows[k] ELSE None]))
  /\ UNCHANGED doneFrame

\* .range(range)?.flatten(): the engine reports a failure for some of the
\* entries within the range; they are dropped.
range_entry_fails(th) ==
  /\ InRead(th, "range")
  /\ LET tb == ReadTable(th)
         within == RangeKeys(KeysOf(tb), call[th].k, call[th].v)
     IN \E F \in SUBSET within \ {{}} :
          /\ Finish(th, Ok([k \in Keys |-> IF k \in within \ F THEN tb.rows[k] ELSE None]))
          /\ loc' = [loc EXCEPT ![th].failed = F]
  /\ UNCHANGED <<engineVars, savepoints, call, pre, ntx, seen, ghostVars, prev>>

\* The engine calling a codec method on a value or on stored bytes.
\* Value::as_bytes(value)
Value_as_bytes(th) ==
  /\ pc[th] = "codec" /\ call[th].op = "as_bytes"
  /\ Finish(th, Ok(as_bytes(call[th].k)))
  /\ UNCHANGED doneFrame

\* Value::from_bytes(data)
Value_from_bytes(th) ==
  /\ pc[th] = "codec" /\ call[th].op = "from_bytes"
  /\ Finish(th, from_bytes(call[th].items))
  /\ UNCHANGED doneFrame

\* Key::compare(data1, data2)
Key_compare(th) ==
  /\ pc[th] = "codec" /\ call[th].op = "compare"
  /\ Finish(th, compare(call[th].items[1], call[th].items[2]))
  /\ UNCHANGED doneFrame

\* ------------------------------------------ generic/multimap_reads.rs
\* Ok(self.read_multimap_table(table)?.get(key)?.flatten().map(..).collect())
multimap_get(th) ==
  /\ pc[th] = "mbody" /\ call[th].op = "multimap_get"
  /\ Finish(th, Ok(loc[th].snap.multi[call[th].t].rows[call[th].k]))
  /\ UNCHANGED doneFrame

\* Ok(self.read_multimap_table(table)?.iter()?.flatten().map(..).collect())
multimap_table(th) ==
  /\ pc[th] = "mbody" /\ call[th].op = "multimap_table"
  /\ Finish(th, Ok(loc[th].snap.multi[call[th].t].rows))
  /\ UNCHANGED doneFrame

\* .get(key)?.flatten(): the engine reports a failure for some of the key's
\* values; they are dropped.
multimap_get_entry_fails(th) ==
  /\ pc[th] = "mbody" /\ call[th].op = "multimap_get"
  /\ LET vs == loc[th].snap.multi[call[th].t].rows[call[th].k] IN
       \E F \in SUBSET vs \ {{}} :
         /\ Finish(th, Ok(vs \ F))
         /\ loc' = [loc EXCEPT ![th].failed = F]
  /\ UNCHANGED <<engineVars, savepoints, call, pre, ntx, seen, ghostVars, prev>>

\* .iter()?.flatten(): the engine reports a failure for some of the keys; they
\* are dropped with their values.
multimap_table_entry_fails(th) ==
  /\ pc[th] = "mbody" /\ call[th].op = "multimap_table"
  /\ LET rows == loc[th].snap.multi[call[th].t].rows IN
       \E F \in SUBSET {k \in Keys : rows[k] # {}} \ {{}} :
         /\ Finish(th, Ok([k \in Keys |-> IF k \in F THEN {} ELSE rows[k]]))
         /\ loc' = [loc EXCEPT ![th].failed = F]
  /\ UNCHANGED <<engineVars, savepoints, call, pre, ntx, seen, ghostVars, prev>>

\* ------------------------------------------------------------- the calls
Call(op, t, k, v, items, fn) ==
  [op |-> op, t |-> t, k |-> k, v |-> v, items |-> items, fn |-> fn]
SeqsUpTo(S, n) == UNION {[1..m -> S] : m \in 0..n}

SavepointCalls ==
  {Call("savepoint", "-", 0, 0, <<>>, "id"), Call("clear_savepoints", "-", 0, 0, <<>>, "id")}
    \cup {Call("load_savepoint", "-", k, 0, <<>>, "id") : k \in 0..MaxSavepoints}
PlainReadCalls(KS) ==
  {Call(op, t, k, 0, <<>>, "id") : op \in {"get", "contains_key"}, t \in PlainTables, k \in KS}
    \cup {Call(op, t, 0, 0, <<>>, "id") : op \in {"table", "first", "last"}, t \in PlainTables}
MultiReadCalls(KS) ==
  {Call("multimap_get", t, k, 0, <<>>, "id") : t \in MultiTables, k \in KS}
    \cup {Call("multimap_table", t, 0, 0, <<>>, "id") : t \in MultiTables}
SingleWriteCalls(KS, VS) ==
  {Call(op, t, k, v, <<>>, "id") : op \in {"try_add", "insert"}, t \in PlainTables, k \in KS, v \in VS}
    \cup {Call("update", t, k, 0, <<>>, fn) : t \in PlainTables, k \in KS, fn \in EditFns}
    \cup {Call("remove", t, k, 0, <<>>, "id") : t \in PlainTables, k \in KS}
BatchWriteCalls(KS, VS, n) ==
  {Call(op, t, 0, 0, ps, "id") : op \in {"batch_try_add", "batch_insert"}, t \in PlainTables,
                                 ps \in SeqsUpTo(KS \X VS, n)}
    \cup {Call(op, t, 0, 0, ks, fn) : op \in {"batch_edit", "batch_edit_fast", "batch_edit_count"},
                                      t \in PlainTables, ks \in SeqsUpTo(KS, n), fn \in EditFns}
TableCalls ==
  {Call(op, t, 0, 0, <<>>, "id") : op \in {"clear_table", "delete_table"}, t \in PlainTables}
MultiWriteCalls(KS, VS, n) ==
  {Call(op, t, k, v, <<>>, "id") : op \in {"multimap_insert", "multimap_remove"},
                                   t \in MultiTables, k \in KS, v \in VS}
    \cup {Call(op, t, k, 0, vs, "id") : op \in {"multimap_insert_values", "multimap_assign"},
                                        t \in MultiTables, k \in KS, vs \in SeqsUpTo(VS, n)}
    \cup {Call("multimap_batch_insert", t, 0, 0, d, "id") :
            t \in MultiTables, d \in SeqsUpTo(KS \X SeqsUpTo(VS, n), 1)}
    \cup {Call("multimap_remove_all", t, k, 0, <<>>, "id") : t \in MultiTables, k \in KS}
    \cup {Call(op, t, 0, 0, <<>>, "id") : op \in {"clear_multimap_table", "delete_multimap_table"},
                                          t \in MultiTables}

\* ------------------------------------------------------ specifications
Caller == 1

\* The steps shared by every method.
TxnSteps(th) ==
  \/ begin_write(th)
  \/ open_table(th)
  \/ commit(th)
  \/ EngineFail(th)

SavepointSteps(th) ==
  \/ savepoint_snap(th)
  \/ savepoint(th)
  \/ load_savepoint_check(th)
  \/ load_savepoint_restore(th)
  \/ load_savepoint(th)
  \/ clear_savepoints(th)

PlainWriteSteps(th) ==
  \/ try_add(th)
  \/ insert(th)
  \/ update(th)
  \/ remove(th)
  \/ batch_try_add(th)
  \/ batch_insert(th)
  \/ batch_edit(th)
  \/ batch_edit_fast(th)
  \/ batch_edit_count(th)
  \/ clear_table(th)
  \/ delete_table(th)

MultiWriteSteps(th) ==
  \/ multimap_insert(th)
  \/ multimap_insert_values_check(th)
  \/ multimap_insert_values(th)
  \/ multimap_batch_insert(th)
  \/ multimap_assign_remove_all(th)
  \/ multimap_assign(th)
  \/ multimap_remove(th)
  \/ multimap_remove_all(th)
  \/ clear_multimap_table_read(th)
  \/ clear_multimap_table(th)
  \/ delete_multimap_table(th)

ReadSteps(th) ==
  \/ begin_read(th)
  \/ read_table_open(th)
  \/ read_table_begin_write(th)
  \/ read_table_create(th)
  \/ read_table_commit(th)
  \/ read_table_begin_read2(th)
  \/ read_table_reopen(th)
  \/ read_multimap_table_open(th)
  \/ get(th)
  \/ contains_key(th)
  \/ table(th)
  \/ first(th)
  \/ last(th)
  \/ multimap_get(th)
  \/ multimap_table(th)

\* One caller owning the CakeDb: the savepoint methods, and mutations of a
\* plain and a multimap table between them; the engine is free to fail.
SaveKeys == {251}
SaveValues == {1}
SaveCalls ==
  SavepointCalls
    \cup {Call(op, t, k, v, <<>>, "id") : op \in {"insert"}, t \in PlainTables,
                                          k \in SaveKeys, v \in SaveValues}
    \cup {Call("remove", t, k, 0, <<>>, "id") : t \in PlainTables, k \in SaveKeys}
    \cup {Call("batch_insert", t, 0, 0, ps, "id") :
            t \in PlainTables, ps \in SeqsUpTo(SaveKeys \X SaveValues, MaxLen) \ {<<>>}}
    \cup {Call("delete_table", t, 0, 0, <<>>, "id") : t \in PlainTables}
    \cup {Call("multimap_insert", t, k, v, <<>>, "id") : t \in MultiTables,
                                                        k \in SaveKeys, v \in SaveValues}
    \cup {Call("delete_multimap_table", t, 0, 0, <<>>, "id") : t \in MultiTables}

Next ==
  \/ \E c \in SaveCalls : Invoke(Caller, c)
  \/ TxnSteps(Caller)
  \/ SavepointSteps(Caller)
  \/ insert(Caller)
  \/ remove(Caller)
  \/ batch_insert(Caller)
  \/ delete_table(Caller)
  \/ multimap_insert(Caller)
  \/ delete_multimap_table(Caller)
  \/ Return(Caller, {})

Spec == Init /\ [][Next]_vars

\* One caller owning the CakeDb: the savepoint methods between reads and
\* writes, succeeding and failing, of a plain and a multimap table.
OrthCalls ==
  SavepointCalls
    \cup {Call("insert", t, k, v, <<>>, "id") : t \in PlainTables, k \in SaveKeys, v \in SaveValues}
    \cup {Call("remove", t, k, 0, <<>>, "id") : t \in PlainTables, k \in SaveKeys}
    \cup {Call("update", t, k, 0, <<>>, "bump") : t \in PlainTables, k \in SaveKeys}
    \cup {Call("get", t, k, 0, <<>>, "id") : t \in PlainTables, k \in SaveKeys}
    \cup {Call("multimap_insert", t, k, v, <<>>, "id") : t \in MultiTables,
                                                        k \in SaveKeys, v \in SaveValues}

NextOrth ==
  \/ \E c \in OrthCalls : Invoke(Caller, c)
  \/ TxnSteps(Caller)
  \/ SavepointSteps(Caller)
  \/ insert(Caller)
  \/ update(Caller)
  \/ remove(Caller)
  \/ multimap_insert(Caller)
  \/ begin_read(Caller)
  \/ read_table_open(Caller)
  \/ read_table_begin_write(Caller)
  \/ read_table_create(Caller)
  \/ read_table_commit(Caller)
  \/ read_table_begin_read2(Caller)
  \/ read_table_reopen(Caller)
  \/ get(Caller)
  \/ Return(Caller, {})

SpecOrth == Init /\ [][NextOrth]_vars

\* One caller, every table and multimap method, the engine free to fail; the
\* plain table over every key, the multimap table over one key.
TablesCalls ==
  PlainReadCalls(Keys) \cup MultiReadCalls(SaveKeys)
    \cup SingleWriteCalls(Keys, Values) \cup BatchWriteCalls(Keys, Values, MaxLen)
    \cup TableCalls \cup MultiWriteCalls(SaveKeys, Values, MaxLen)

\* The methods a following call's result is stated against.
TrackedOps == PlainReadOps \cup {"clear_table", "delete_table", "delete_multimap_table"}

NextTables ==
  \/ \E c \in TablesCalls : Invoke(Caller, c)
  \/ TxnSteps(Caller)
  \/ PlainWriteSteps(Caller)
  \/ MultiWriteSteps(Caller)
  \/ ReadSteps(Caller)
  \/ Return(Caller, TrackedOps)

SpecTables == Init /\ [][NextTables]_vars

\* One caller whose thread runs every call it has begun to the end: the
\* methods with an exit of their own out of the write transaction or a second
\* transaction inside the call, and the writes that set their cases up.
LiveCalls ==
  SingleWriteCalls(Keys, SaveValues)
    \cup {Call("get", t, k, 0, <<>>, "id") : t \in PlainTables, k \in SaveKeys}
    \cup {Call("delete_table", t, 0, 0, <<>>, "id") : t \in PlainTables}
    \cup {Call("multimap_insert", t, k, v, <<>>, "id") : t \in MultiTables, k \in Keys, v \in SaveValues}
    \cup {Call(op, t, 0, 0, <<>>, "id") : op \in {"clear_multimap_table", "delete_multimap_table"},
                                          t \in MultiTables}

CallSteps ==
  \/ TxnSteps(Caller)
  \/ try_add(Caller)
  \/ insert(Caller)
  \/ update(Caller)
  \/ remove(Caller)
  \/ delete_table(Caller)
  \/ multimap_insert(Caller)
  \/ clear_multimap_table_read(Caller)
  \/ clear_multimap_table(Caller)
  \/ delete_multimap_table(Caller)
  \/ begin_read(Caller)
  \/ read_table_open(Caller)
  \/ read_table_begin_write(Caller)
  \/ read_table_create(Caller)
  \/ read_table_commit(Caller)
  \/ read_table_begin_read2(Caller)
  \/ read_table_reopen(Caller)
  \/ get(Caller)

NextLive ==
  \/ \E c \in LiveCalls : Invoke(Caller, c)
  \/ CallSteps
  \/ Return(Caller, {})

SpecLive == Init /\ [][NextLive]_vars /\ WF_vars(CallSteps)

\* Two threads sharing one CakeDb by reference: a reader scanning a plain
\* table, and a writer clearing and deleting it and
\* running write transactions of several inserts through database().
Reader == Caller
Writer == CHOOSE th \in Threads : th # Reader
ReaderCalls == {Call("table", t, 0, 0, <<>>, "id") : t \in PlainTables}
WriterCalls ==
  TableCalls
    \cup {Call("database", t, 0, 0, ps, "id") :
            t \in PlainTables, ps \in SeqsUpTo(Keys \X SaveValues, MaxLen) \ {<<>>}}

ReaderSteps(th) ==
  \/ begin_read(th)
  \/ read_table_open(th)
  \/ read_table_begin_write(th)
  \/ read_table_create(th)
  \/ read_table_commit(th)
  \/ read_table_begin_read2(th)
  \/ read_table_reopen(th)
  \/ table(th)

WriterSteps(th) ==
  \/ clear_table(th)
  \/ delete_table(th)
  \/ database(th)

NextConc ==
  \/ \E c \in ReaderCalls : Invoke(Reader, c)
  \/ \E c \in WriterCalls : Invoke(Writer, c)
  \/ \E th \in Threads : TxnSteps(th)
  \/ ReaderSteps(Reader)
  \/ WriterSteps(Writer)
  \/ \E th \in Threads : Return(th, {})

SpecConc == Init /\ [][NextConc]_vars

\* Two threads sharing one CakeDb by reference: a reader scanning a plain
\* table that may not exist yet, and a writer that creates it, by clear_table
\* or by a write transaction of inserts through database().
CreatorCalls ==
  {Call("clear_table", t, 0, 0, <<>>, "id") : t \in PlainTables}
    \cup {Call("database", t, 0, 0, ps, "id") :
            t \in PlainTables, ps \in SeqsUpTo(Keys \X SaveValues, MaxLen) \ {<<>>}}

NextRace ==
  \/ \E c \in ReaderCalls : Invoke(Reader, c)
  \/ \E c \in CreatorCalls : Invoke(Writer, c)
  \/ \E th \in Threads : TxnSteps(th)
  \/ ReaderSteps(Reader)
  \/ clear_table(Writer)
  \/ database(Writer)
  \/ \E th \in Threads : Return(th, {})

SpecRace == Init /\ [][NextRace]_vars

\* One caller and the multimap methods, over every key and value; the engine
\* is free to fail.
MultiCalls == MultiReadCalls(Keys) \cup MultiWriteCalls(Keys, Values, MaxLen)

MultiReadSteps(th) ==
  \/ begin_read(th)
  \/ read_multimap_table_open(th)
  \/ multimap_get(th)
  \/ multimap_table(th)

NextMulti ==
  \/ \E c \in MultiCalls : Invoke(Caller, c)
  \/ TxnSteps(Caller)
  \/ MultiWriteSteps(Caller)
  \/ MultiReadSteps(Caller)
  \/ Return(Caller, {})

SpecMulti == Init /\ [][NextMulti]_vars

\* The codec on its own and under the engine's ordered index: one caller,
\* the codec methods on u32 keys of every encoded width and on byte strings
\* that encode no u32, and the ordered reads of a plain table.
CodecKeys == Keys \cup {0, 1, 250, 255, 65535, 65536, 16777216}
NotEncodings == {<<>>, <<251>>, <<251, 0>>, <<252, 0, 0, 1>>, <<253, 0, 0, 0, 0, 0, 0, 0, 1>>, <<255>>}
StoredBytes == {as_bytes(k) : k \in CodecKeys} \cup NotEncodings
CodecCalls ==
  {Call("as_bytes", "-", k, 0, <<>>, "id") : k \in CodecKeys}
    \cup {Call("from_bytes", "-", 0, 0, d, "id") : d \in StoredBytes}
    \cup {Call("compare", "-", 0, 0, <<d1, d2>>, "id") : d1 \in StoredBytes, d2 \in StoredBytes}
OrderedReadCalls ==
  {Call(op, t, 0, 0, <<>>, "id") : op \in {"table", "first", "last", "first_key", "last_key"},
                                   t \in PlainTables}
    \cup {Call("range", t, lo, hi, <<>>, "id") : t \in PlainTables, lo \in Keys, hi \in Keys}
    \cup {Call(op, t, k, v, <<>>, "id") : op \in {"insert"}, t \in PlainTables,
                                          k \in Keys, v \in Values}
    \cup {Call("remove", t, k, 0, <<>>, "id") : t \in PlainTables, k \in Keys}

CodecSteps(th) ==
  \/ Value_as_bytes(th)
  \/ Value_from_bytes(th)
  \/ Key_compare(th)

OrderedReadSteps(th) ==
  \/ begin_read(th)
  \/ read_table_open(th)
  \/ read_table_begin_write(th)
  \/ read_table_create(th)
  \/ read_table_commit(th)
  \/ read_table_begin_read2(th)
  \/ read_table_reopen(th)
  \/ table(th)
  \/ first(th)
  \/ last(th)
  \/ first_key(th)
  \/ last_key(th)
  \/ range(th)

NextCodec ==
  \/ \E c \in CodecCalls \cup OrderedReadCalls : Invoke(Caller, c)
  \/ CodecSteps(Caller)
  \/ TxnSteps(Caller)
  \/ insert(Caller)
  \/ remove(Caller)
  \/ OrderedReadSteps(Caller)
  \/ Return(Caller, {})

SpecCodec == Init /\ [][NextCodec]_vars

\* One caller and the scans, the engine free to report a failure for any
\* entry a scan iterates over.
ScanCalls ==
  MultiReadCalls(Keys)
    \cup {Call("table", t, 0, 0, <<>>, "id") : t \in PlainTables}
    \cup {Call("range", t, lo, hi, <<>>, "id") : t \in PlainTables, lo \in Keys, hi \in Keys}
    \cup {Call("insert", t, k, v, <<>>, "id") : t \in PlainTables, k \in Keys, v \in SaveValues}
    \cup {Call("multimap_insert", t, k, v, <<>>, "id") : t \in MultiTables, k \in Keys, v \in Values}

ScanSteps(th) ==
  \/ begin_read(th)
  \/ read_table_open(th)
  \/ read_table_begin_write(th)
  \/ read_table_create(th)
  \/ read_table_commit(th)
  \/ read_table_begin_read2(th)
  \/ read_table_reopen(th)
  \/ read_multimap_table_open(th)
  \/ table(th)
  \/ table_entry_fails(th)
  \/ range(th)
  \/ range_entry_fails(th)
  \/ multimap_get(th)
  \/ multimap_get_entry_fails(th)
  \/ multimap_table(th)
  \/ multimap_table_entry_fails(th)

NextScan ==
  \/ \E c \in ScanCalls : Invoke(Caller, c)
  \/ TxnSteps(Caller)
  \/ insert(Caller)
  \/ multimap_insert(Caller)
  \/ ScanSteps(Caller)
  \/ Return(Caller, {})

SpecScan == Init /\ [][NextScan]_vars

\* ------------------------------------------------------------ the claims
Done(th, op) == pc[th] = "done" /\ call[th].op = op
Returned(th, op, kind) == Done(th, op) /\ result[th].kind = kind

\* C1: savepoint round-trip. When savepoint() returned p in store state S0 and
\* only table and multimap methods ran since, a load_savepoint(p) that
\* succeeds leaves the store in state S0 exactly: every table as it was.
C1_SavepointRoundTrip ==
  \A th \in Threads :
    (Returned(th, "load_savepoint", "Ok") /\ sp0.live /\ call[th].k = sp0.id)
      => db = sp0.state
\* A restore of p after both the plain and the multimap table were changed.
C1_Witness ==
  \E th \in Threads :
    /\ Returned(th, "load_savepoint", "Ok") /\ sp0.live /\ call[th].k = sp0.id
    /\ \A t \in PlainTables : pre[th].db.plain[t] # sp0.state.plain[t]
    /\ \A t \in MultiTables : pre[th].db.multi[t] # sp0.state.multi[t]

\* C2: invalidation rule. A successful load_savepoint(k) leaves in the index
\* exactly the ids of the previous index that are <= k, each with its handle;
\* a load_savepoint fails with NotFound exactly when its id is not in the
\* index, so a greater id fails afterwards and k itself can be loaded again.
C2_InvalidationRule ==
  \A th \in Threads :
    Done(th, "load_savepoint") =>
      /\ (result[th].kind = "NotFound") <=> (call[th].k \notin DOMAIN pre[th].sp)
      /\ result[th].kind = "Ok" =>
           /\ DOMAIN savepoints = {i \in DOMAIN pre[th].sp : i <= call[th].k}
           /\ \A i \in DOMAIN savepoints : savepoints[i] = pre[th].sp[i]
\* A restore of p1 that removed a later savepoint p2 from the index.
C2_Witness ==
  \E th \in Threads :
    /\ Returned(th, "load_savepoint", "Ok")
    /\ \E p2 \in DOMAIN pre[th].sp : p2 > call[th].k /\ p2 \notin DOMAIN savepoints
    /\ call[th].k \in DOMAIN savepoints

\* C3: savepoint ids are never reused: every savepoint() returns an id
\* strictly greater than every id an earlier savepoint() returned.
C3_IdsNeverReused ==
  [][\A th \in Threads :
       (pc[th] = "sp_commit" /\ pc'[th] = "done" /\ result'[th].kind = "Ok")
         => \A i \in issued : result'[th].val > i]_vars

\* C4: a savepoint that left the index (invalidated or cleared) is never
\* restorable again: no load_savepoint with the id returned for it succeeds
\* (the claim's NotFound is one way of not succeeding).
C4_RemovedStaysRemoved ==
  \A th \in Threads :
    (Done(th, "load_savepoint") /\ call[th].k \in removed) => result[th].kind # "Ok"

\* C5: load_savepoint with an id that is not in the index returns NotFound,
\* begins no transaction, and leaves the store and the index as they were.
C5_UnknownIdNotFound ==
  \A th \in Threads :
    (Done(th, "load_savepoint") /\ call[th].k \notin DOMAIN pre[th].sp) =>
      /\ result[th].kind = "NotFound"
      /\ ntx[th] = NoTx
      /\ db = pre[th].db
      /\ savepoints = pre[th].sp
      /\ writer = NoThread
\* An unknown id given while savepoints are held and the store has content.
C5_Witness ==
  \E th \in Threads :
    /\ Returned(th, "load_savepoint", "NotFound")
    /\ DOMAIN savepoints # {}
    /\ \E t \in PlainTables : db.plain[t].exists

\* C6: batch atomicity. A batch method that fails before its commit leaves
\* the store as it was when the call started: none of the batch's edits is
\* visible, not even a prefix of them.
C6_BatchAtomicity ==
  \A th \in Threads :
    (pc[th] = "done" /\ call[th].op \in BatchOps /\ result[th].kind # "Ok")
      => db = pre[th].db
\* A batch_insert on an existing table failing after at least one insert
\* changed the transaction's working copy.
C6_Witness ==
  \E th \in Threads :
    /\ Returned(th, "batch_insert", "EngineErr")
    /\ loc[th].idx >= 1
    /\ loc[th].lost
    /\ pre[th].db.plain[call[th].t].exists

\* C8 as stated: a read-only method opens one read transaction and nothing
\* else, a mutating method one write transaction and nothing else.
C8_OneTransactionPerCall ==
  \A th \in Threads :
    (pc[th] = "done" /\ result[th].kind = "Ok") =>
      /\ call[th].op \in ReadOnlyOps => ntx[th] = [r |-> 1, w |-> 0]
      /\ call[th].op \in MutatingOps => ntx[th] = [r |-> 0, w |-> 1]
\* C8: the transactions of a call. A plain read opens one read transaction
\* when the table exists at its first open, and a read, a write and a second
\* read transaction when it does not; a multimap read opens one read
\* transaction; a mutating method opens one write transaction and no read
\* transaction, except clear_multimap_table, which opens one read transaction
\* as well. A call that fails early opens no more than these.
C8_TransactionsPerCall ==
  \A th \in Threads :
    pc[th] = "done" =>
      LET op == call[th].op
          n == ntx[th]
          ok == result[th].kind = "Ok"
          absent == op \in PlainReadOps /\ ~pre[th].db.plain[call[th].t].exists
      IN /\ (op \in MultiReadOps \/ (op \in PlainReadOps /\ ~absent)) =>
              /\ n.w = 0 /\ n.r <= 1
              /\ ok => n.r = 1
         /\ absent =>
              /\ n.w <= 1 /\ n.r <= 2
              /\ ok => n = [r |-> 2, w |-> 1]
         /\ op \in MutatingOps \ {"clear_multimap_table"} =>
              /\ n.r = 0 /\ n.w <= 1
              /\ result[th].kind \in {"Ok", "NotFound"} => n.w = 1
         /\ op = "clear_multimap_table" =>
              /\ n.w <= 1 /\ n.r <= n.w
              /\ result[th].kind \in {"Ok", "TableDoesNotExist"} => n = [r |-> 1, w |-> 1]
\* A plain read of a missing table returning after three transactions, and a
\* clear_multimap_table returning after a write and a read transaction.
C8_Witness ==
  \E th \in Threads :
    /\ pc[th] = "done" /\ result[th].kind = "Ok"
    /\ \/ call[th].op \in PlainReadOps /\ ntx[th] = [r |-> 2, w |-> 1]
       \/ call[th].op = "clear_multimap_table" /\ ntx[th] = [r |-> 1, w |-> 1]
                                               /\ loc[th].idx >= 1

\* C9 as stated: get returns None or the stored value, and the store after
\* the call is the store before it.
C9_GetNeverMutates ==
  \A th \in Threads :
    Done(th, "get") =>
      /\ result[th].kind = "Ok" =>
           result[th].val = pre[th].db.plain[call[th].t].rows[call[th].k]
      /\ db = pre[th].db
\* C9: get returns None when the table or the key is absent and the stored
\* value otherwise; it changes no table's entries and no multimap table; the
\* one change it can make is to create its table, empty, when it is missing.
C9_GetOnlyCreates ==
  \A th \in Threads :
    Done(th, "get") =>
      /\ result[th].kind = "Ok" =>
           /\ result[th].val = pre[th].db.plain[call[th].t].rows[call[th].k]
           /\ db.plain[call[th].t].exists
      /\ db.multi = pre[th].db.multi
      /\ \A t \in PlainTables :
           /\ db.plain[t].rows = pre[th].db.plain[t].rows
           /\ db.plain[t].exists # pre[th].db.plain[t].exists =>
                t = call[th].t /\ ~pre[th].db.plain[t].exists /\ db.plain[t] = EmptyTable
\* A get on a missing table returning None with the table created.
C9_Witness ==
  \E th \in Threads :
    /\ Returned(th, "get", "Ok")
    /\ result[th].val = None
    /\ ~pre[th].db.plain[call[th].t].exists
    /\ db.plain[call[th].t] = EmptyTable

\* The result of a plain read on an empty table.
EmptyResult(op) ==
  CASE op = "get" -> None
    [] op = "contains_key" -> FALSE
    [] op = "table" -> EmptyRows
    [] OTHER -> <<>>
\* C10: read-path auto-creation. A plain read of a table that does not exist
\* never fails for the table being missing; when it returns Ok the result is
\* the empty one and the table exists and is empty; a delete_table that
\* follows it on the same table returns true.
C10_ReadAutoCreates ==
  \A th \in Threads :
    /\ (pc[th] = "done" /\ call[th].op \in PlainReadOps
          /\ ~pre[th].db.plain[call[th].t].exists) =>
         /\ result[th].kind \in {"Ok", "EngineErr"}
         /\ result[th].kind = "Ok" =>
              /\ result[th].val = EmptyResult(call[th].op)
              /\ db.plain[call[th].t] = EmptyTable
    /\ (Returned(th, "delete_table", "Ok")
          /\ prev = [op |-> "read_missing", t |-> call[th].t, kind |-> "Ok"]) =>
         result[th].val = TRUE
\* A delete_table returning true right after a read of the missing table.
C10_Witness ==
  \E th \in Threads :
    /\ Returned(th, "delete_table", "Ok")
    /\ prev = [op |-> "read_missing", t |-> call[th].t, kind |-> "Ok"]
    /\ result[th].val = TRUE
    /\ pre[th].db.plain[call[th].t] = EmptyTable

C11_Update ==
  \A th \in Threads :
    Done(th, "update") =>
      LET c == call[th]
          v == pre[th].db.plain[c.t].rows[c.k]
      IN /\ v = None =>
              /\ result[th].kind \in {"NotFound", "EngineErr"}
              /\ loc[th].edits = 0
         /\ result[th].kind = "NotFound" => v = None
         /\ result[th].kind # "Ok" => db = pre[th].db
         /\ result[th].kind = "Ok" =>
              /\ result[th].val = v
              /\ loc[th].edits = 1
              /\ db = [pre[th].db EXCEPT !.plain[c.t].rows[c.k] = ApplyEdit(c.fn, c.k, v)]
\* An update of a key missing from a missing table: it returns NotFound
\* after its transaction, dropped, had created the table.
C11_Witness ==
  \E th \in Threads :
    /\ Returned(th, "update", "NotFound")
    /\ loc[th].lost
    /\ ~pre[th].db.plain[call[th].t].exists
\* An update that changed the value of a key, beside another key.
C11_WitnessPresent ==
  \E th \in Threads :
    /\ Returned(th, "update", "Ok")
    /\ db.plain[call[th].t].rows[call[th].k] # result[th].val
    /\ \E k \in Keys \ {call[th].k} : db.plain[call[th].t].rows[k] # None

\* C12: try_add returns true exactly when the key was absent before the
\* call; then the table (created if missing) maps the key to the value and
\* nothing else changed; when the key was present the store is not modified.
C12_TryAdd ==
  \A th \in Threads :
    Returned(th, "try_add", "Ok") =>
      LET c == call[th]
          old == pre[th].db.plain[c.t].rows[c.k]
      IN /\ result[th].val = (old = None)
         /\ old = None =>
              db = [pre[th].db EXCEPT !.plain[c.t] =
                      [exists |-> TRUE, rows |-> [@.rows EXCEPT ![c.k] = c.v]]]
         /\ old # None => db = pre[th].db
\* A try_add of a present key with another value: false, the value kept.
C12_Witness ==
  \E th \in Threads :
    /\ Returned(th, "try_add", "Ok")
    /\ result[th].val = FALSE
    /\ pre[th].db.plain[call[th].t].rows[call[th].k] # call[th].v
    /\ db.plain[call[th].t].rows[call[th].k] # call[th].v

\* Whether a key occurs in a sequence of pairs, and the values of its first
\* and of its last occurrence.
Occurs(pairs, k) == \E i \in 1..Len(pairs) : pairs[i][1] = k
FirstValue(pairs, k) ==
  pairs[CHOOSE i \in 1..Len(pairs) :
          pairs[i][1] = k /\ \A j \in 1..(i - 1) : pairs[j][1] # k][2]
LastValue(pairs, k) ==
  pairs[CHOOSE i \in 1..Len(pairs) :
          pairs[i][1] = k /\ \A j \in (i + 1)..Len(pairs) : pairs[j][1] # k][2]
RECURSIVE SkippedKeys(_, _)
\* In input order, the keys of the pairs whose key is in `present` or
\* occurred at an earlier position.
SkippedKeys(pairs, present) ==
  IF pairs = <<>> THEN <<>>
  ELSE LET k == Head(pairs)[1] IN
         IF k \in present THEN <<k>> \o SkippedKeys(Tail(pairs), present)
         ELSE SkippedKeys(Tail(pairs), present \cup {k})

\* C13: batch_try_add. After a batch that returns Ok every key present
\* before it keeps its value, every absent key occurring in the pairs holds
\* the value of its first occurrence, nothing else changed, and the returned
\* list is, in input order, the keys of the positions whose key was present
\* before the batch or occurred earlier in the pairs.
C13_BatchTryAdd ==
  \A th \in Threads :
    Returned(th, "batch_try_add", "Ok") =>
      LET c == call[th]
          old == pre[th].db.plain[c.t]
      IN /\ result[th].val = SkippedKeys(c.items, KeysOf(old))
         /\ db = [pre[th].db EXCEPT !.plain[c.t] =
                    [exists |-> TRUE,
                     rows |-> [k \in Keys |->
                                 IF old.rows[k] # None THEN old.rows[k]
                                 ELSE IF Occurs(c.items, k) THEN FirstValue(c.items, k)
                                 ELSE None]]]
\* A batch with the same absent key twice, with two values: the second
\* occurrence is reported and the first value is the one stored.
C13_Witness ==
  \E th \in Threads :
    /\ Returned(th, "batch_try_add", "Ok")
    /\ Len(call[th].items) = 2
    /\ call[th].items[1][1] = call[th].items[2][1]
    /\ call[th].items[1][2] # call[th].items[2][2]
    /\ pre[th].db.plain[call[th].t].rows[call[th].items[1][1]] = None
    /\ result[th].val = <<call[th].items[1][1]>>
    /\ db.plain[call[th].t].rows[call[th].items[1][1]] = call[th].items[1][2]

\* Whether a sequence of pairs, or of keys, holds no key twice.
DistinctKeys(pairs) ==
  \A i, j \in 1..Len(pairs) : pairs[i][1] = pairs[j][1] => i = j
NoRepeats(keys) == \A i, j \in 1..Len(keys) : keys[i] = keys[j] => i = j

\* C14: batch_insert returns the map of the keys of the pairs that had a
\* value before the batch, each with that value, for every input sequence.
C14_BatchInsertPriorValues ==
  \A th \in Threads :
    Returned(th, "batch_insert", "Ok") =>
      result[th].val =
        [k \in Keys |-> IF Occurs(call[th].items, k)
                          THEN pre[th].db.plain[call[th].t].rows[k] ELSE None]
\* The same for the input sequences in which no key occurs twice.
C14_DistinctInput ==
  \A th \in Threads :
    (Returned(th, "batch_insert", "Ok") /\ DistinctKeys(call[th].items)) =>
      result[th].val =
        [k \in Keys |-> IF Occurs(call[th].items, k)
                          THEN pre[th].db.plain[call[th].t].rows[k] ELSE None]

\* C15: batch_insert is an upsert in iteration order. After a batch that
\* returns Ok every key occurring in the pairs holds the value of its last
\* occurrence, every other key holds what it held, and nothing else changed.
C15_BatchInsertLastWins ==
  \A th \in Threads :
    Returned(th, "batch_insert", "Ok") =>
      LET c == call[th]
          old == pre[th].db.plain[c.t]
      IN db = [pre[th].db EXCEPT !.plain[c.t] =
                 [exists |-> TRUE,
                  rows |-> [k \in Keys |-> IF Occurs(c.items, k)
                                             THEN LastValue(c.items, k)
                                             ELSE old.rows[k]]]]
\* A batch with one key twice, with two values, beside a key it leaves alone.
C15_Witness ==
  \E th \in Threads :
    /\ Returned(th, "batch_insert", "Ok")
    /\ Len(call[th].items) = 2
    /\ call[th].items[1][1] = call[th].items[2][1]
    /\ call[th].items[1][2] # call[th].items[2][2]
    /\ db.plain[call[th].t].rows[call[th].items[1][1]] = call[th].items[2][2]
    /\ \E k \in Keys \ {call[th].items[1][1]} : db.plain[call[th].t].rows[k] # None

\* C16: batch_edit returns the map of the keys of `keys` that were present,
\* each with the value it had before the batch, for every key sequence.
C16_BatchEditPriorValues ==
  \A th \in Threads :
    Returned(th, "batch_edit", "Ok") =>
      result[th].val =
        [k \in Keys |-> IF \E i \in 1..Len(call[th].items) : call[th].items[i] = k
                          THEN pre[th].db.plain[call[th].t].rows[k] ELSE None]
\* The same for the key sequences in which no key occurs twice.
C16_DistinctInput ==
  \A th \in Threads :
    (Returned(th, "batch_edit", "Ok") /\ NoRepeats(call[th].items)) =>
      result[th].val =
        [k \in Keys |-> IF \E i \in 1..Len(call[th].items) : call[th].items[i] = k
                          THEN pre[th].db.plain[call[th].t].rows[k] ELSE None]

RECURSIVE EditAll(_, _, _)
\* The rows after each listed key that is present, in order, had the edit
\* applied to its current value; absent keys are passed over.
EditAll(rows, keys, fn) ==
  IF keys = <<>> THEN rows
  ELSE LET k == Head(keys) IN
         EditAll(IF rows[k] = None THEN rows ELSE [rows EXCEPT ![k] = ApplyEdit(fn, k, @)],
                 Tail(keys), fn)
RECURSIVE ChangedCount(_, _, _)
\* The number of listed occurrences of a present key whose edit gives a
\* value unequal to the one stored just before it.
ChangedCount(rows, keys, fn) ==
  IF keys = <<>> THEN 0
  ELSE LET k == Head(keys)
           e == ApplyEdit(fn, k, rows[k])
       IN IF rows[k] = None THEN ChangedCount(rows, Tail(keys), fn)
          ELSE (IF e # rows[k] THEN 1 ELSE 0)
                 + ChangedCount([rows EXCEPT ![k] = e], Tail(keys), fn)
BatchEditOps == {"batch_edit", "batch_edit_fast", "batch_edit_count"}

\* C17: batch_edit, batch_edit_fast and batch_edit_count leave the same
\* final state. After any of them returns Ok the table holds, for the same
\* initial rows, keys and edit, the same rows: each listed key that is
\* present had the edit applied to its current value, once an occurrence;
\* absent keys are not created and `edit` is not called for them; nothing
\* else changed.
C17_BatchEditsAgree ==
  \A th \in Threads :
    (pc[th] = "done" /\ call[th].op \in BatchEditOps /\ result[th].kind = "Ok") =>
      LET c == call[th]
          old == pre[th].db.plain[c.t]
      IN /\ db = [pre[th].db EXCEPT !.plain[c.t] =
                    [exists |-> TRUE, rows |-> EditAll(old.rows, c.items, c.fn)]]
         /\ loc[th].edits = Cardinality({i \in 1..Len(c.items) : old.rows[c.items[i]] # None})
\* A batch_edit_fast over a present and an absent key with an edit that
\* changes the value: the present key is changed, the absent one not created.
C17_Witness ==
  \E th \in Threads :
    /\ Returned(th, "batch_edit_fast", "Ok")
    /\ Len(call[th].items) = 2
    /\ \E i, j \in 1..2 :
         /\ pre[th].db.plain[call[th].t].rows[call[th].items[i]] # None
         /\ db.plain[call[th].t].rows[call[th].items[i]]
              # pre[th].db.plain[call[th].t].rows[call[th].items[i]]
         /\ pre[th].db.plain[call[th].t].rows[call[th].items[j]] = None
         /\ db.plain[call[th].t].rows[call[th].items[j]] = None

\* C18: batch_edit_count returns the number of processed key occurrences
\* whose key was present and whose edit gave a value unequal to the one
\* stored just before it; absent keys and edits leaving the value equal
\* count 0.
C18_BatchEditCount ==
  \A th \in Threads :
    Returned(th, "batch_edit_count", "Ok") =>
      result[th].val =
        ChangedCount(pre[th].db.plain[call[th].t].rows, call[th].items, call[th].fn)
\* A count of 0 for an edit that leaves the values of two present keys equal.
C18_Witness ==
  \E th \in Threads :
    /\ Returned(th, "batch_edit_count", "Ok")
    /\ Len(call[th].items) = 2
    /\ \A i \in 1..2 : pre[th].db.plain[call[th].t].rows[call[th].items[i]] # None
    /\ loc[th].edits = 2
    /\ result[th].val = 0

\* The call that returned last was a successful `op` on the table of the
\* call of th.
After(th, op) == prev = [op |-> op, t |-> call[th].t, kind |-> "Ok"]

\* C19: delete_table and delete_multimap_table return whether the table
\* existed at the call and leave it not existing, with none of its entries;
\* the same call repeated right afterwards returns false; a plain read that
\* follows a delete_table finds no entry, a multimap read that follows a
\* delete_multimap_table fails.
C19_DeleteTable ==
  \A th \in Threads :
    /\ Returned(th, "delete_table", "Ok") =>
         /\ result[th].val = pre[th].db.plain[call[th].t].exists
         /\ db = [pre[th].db EXCEPT !.plain[call[th].t] = NoTable]
         /\ After(th, "delete_table") => result[th].val = FALSE
    /\ Returned(th, "delete_multimap_table", "Ok") =>
         /\ result[th].val = pre[th].db.multi[call[th].t].exists
         /\ db = [pre[th].db EXCEPT !.multi[call[th].t] = NoMTable]
         /\ After(th, "delete_multimap_table") => result[th].val = FALSE
    /\ (pc[th] = "done" /\ call[th].op \in PlainReadOps /\ After(th, "delete_table")) =>
         (result[th].kind = "Ok" => result[th].val = EmptyResult(call[th].op))
    /\ (pc[th] = "done" /\ call[th].op \in MultiReadOps
          /\ After(th, "delete_multimap_table")) =>
         result[th].kind \in {"TableDoesNotExist", "EngineErr"}
\* A delete_table of a table with entries: true, and the table is gone.
C19_Witness ==
  \E th \in Threads :
    /\ Returned(th, "delete_table", "Ok")
    /\ result[th].val = TRUE
    /\ KeysOf(pre[th].db.plain[call[th].t]) # {}
    /\ db.plain[call[th].t] = NoTable
\* The repeated delete_table returning false, and a read after a delete.
C19_WitnessRepeat ==
  \E th \in Threads :
    /\ Returned(th, "delete_table", "Ok") /\ After(th, "delete_table")
    /\ result[th].val = FALSE
C19_WitnessRead ==
  \E th \in Threads :
    /\ Returned(th, "multimap_get", "TableDoesNotExist")
    /\ After(th, "delete_multimap_table")

\* C20: clear_table, in one write transaction, leaves its table existing
\* and without entries whatever it held, and changes nothing else; a
\* delete_table that follows it on the same table returns true.
C20_ClearTable ==
  \A th \in Threads :
    /\ Returned(th, "clear_table", "Ok") =>
         /\ db = [pre[th].db EXCEPT !.plain[call[th].t] = EmptyTable]
         /\ ntx[th] = [r |-> 0, w |-> 1]
    /\ (Returned(th, "delete_table", "Ok") /\ After(th, "clear_table")) =>
         result[th].val = TRUE
\* A clear_table of a table holding every key.
C20_Witness ==
  \E th \in Threads :
    /\ Returned(th, "clear_table", "Ok")
    /\ KeysOf(pre[th].db.plain[call[th].t]) = Keys
    /\ db.plain[call[th].t] = EmptyTable
\* The delete_table that follows a clear_table returning true.
C20_WitnessDelete ==
  \E th \in Threads :
    /\ Returned(th, "delete_table", "Ok") /\ After(th, "clear_table")
    /\ result[th].val = TRUE

\* The values a sequence lists.
SetOf(seq) == {seq[i] : i \in DOMAIN seq}
\* The store as it was at the call, with table t's key k holding the set vs.
WithValues(th, vs) ==
  [pre[th].db EXCEPT !.multi[call[th].t] =
     [exists |-> TRUE, rows |-> [pre[th].db.multi[call[th].t].rows EXCEPT ![call[th].k] = vs]]]
\* The values key k of table t held at the call.
PriorValues(th) == pre[th].db.multi[call[th].t].rows[call[th].k]

\* C21: multimap_assign replaces. After a multimap_assign(k, values) that
\* returned Ok, key k holds exactly the set of the given values (none when
\* values is empty), every other key and table is as it was, and the result
\* is true exactly when k held a non-empty set before.
C21_MultimapAssign ==
  \A th \in Threads :
    Returned(th, "multimap_assign", "Ok") =>
      /\ db = WithValues(th, SetOf(call[th].items))
      /\ result[th].val = (PriorValues(th) # {})
\* An assign that replaces a two-valued set by one value, another key holding
\* values too.
C21_Witness ==
  \E th \in Threads :
    /\ Returned(th, "multimap_assign", "Ok")
    /\ PriorValues(th) = Values
    /\ Len(call[th].items) = 1
    /\ \E k \in Keys \ {call[th].k} : db.multi[call[th].t].rows[k] # {}
    /\ result[th].val = TRUE
\* An assign of no values that empties the key.
C21_WitnessEmpty ==
  \E th \in Threads :
    /\ Returned(th, "multimap_assign", "Ok")
    /\ PriorValues(th) # {}
    /\ call[th].items = <<>>
    /\ db.multi[call[th].t].rows[call[th].k] = {}

\* C22: multimap_insert(k, v) that returned Ok returns true exactly when the
\* pair (k, v) was present before, and leaves k with its prior set plus v and
\* everything else as it was; so an insert of a pair that is present (a second
\* insert of it) returns true and changes nothing.
C22_MultimapInsert ==
  \A th \in Threads :
    Returned(th, "multimap_insert", "Ok") =>
      /\ db = WithValues(th, PriorValues(th) \cup {call[th].v})
      /\ result[th].val = (call[th].v \in PriorValues(th))
      /\ (call[th].v \in PriorValues(th) /\ pre[th].db.multi[call[th].t].exists) => db = pre[th].db
\* The insert of a pair that is present, next to another value of the key.
C22_Witness ==
  \E th \in Threads :
    /\ Returned(th, "multimap_insert", "Ok")
    /\ PriorValues(th) = Values
    /\ result[th].val = TRUE
    /\ db = pre[th].db
\* The insert of a new value next to one the key holds.
C22_WitnessNew ==
  \E th \in Threads :
    /\ Returned(th, "multimap_insert", "Ok")
    /\ PriorValues(th) # {} /\ call[th].v \notin PriorValues(th)
    /\ result[th].val = FALSE
    /\ db.multi[call[th].t].rows[call[th].k] = Values

C23_WitnessAll ==
  \E th \in Threads :
    /\ Returned(th, "multimap_remove_all", "Ok")
    /\ Len(result[th].val) = 2
    /\ \E k \in Keys \ {call[th].k} : db.multi[call[th].t].rows[k] # {}
\* A remove of a pair that is absent while the key holds another value.
C23_WitnessRepeat ==
  \E th \in Threads :
    /\ Returned(th, "multimap_remove", "Ok")
    /\ PriorValues(th) # {} /\ call[th].v \notin PriorValues(th)
    /\ result[th].val = FALSE

EntriesWithin(th, lo, hi) ==
  [k \in Keys |-> IF lo <= k /\ k <= hi THEN ReadTable(th).rows[k] ELSE None]

C25_WitnessCompare ==
  \E th \in Threads :
    /\ Done(th, "compare")
    /\ call[th].items = <<as_bytes(65536), as_bytes(255)>>
    /\ result[th] = Ok(1)
\* A range that holds one of two entries, and one that holds both.
C25_WitnessRange ==
  \E th \in Threads :
    /\ Returned(th, "range", "Ok")
    /\ KeysOf(ReadTable(th)) = Keys
    /\ call[th].k = 256 /\ call[th].v = 256
    /\ result[th].val[251] = None /\ result[th].val[256] # None
C25_WitnessRangeAll ==
  \E th \in Threads :
    /\ Returned(th, "range", "Ok")
    /\ KeysOf(ReadTable(th)) = Keys
    /\ call[th].k = 251 /\ call[th].v = 256
    /\ \A k \in Keys : result[th].val[k] # None

\* C26: a failed decode is an error value. A from_bytes on bytes that are no
\* valid encoding returns the failure CorruptData to its caller; it does not
\* panic.
C26_CorruptDataIsError ==
  \A th \in Threads :
    Done(th, "from_bytes") =>
      result[th] = IF decode_from_slice(call[th].items).kind = "Ok"
                     THEN decode_from_slice(call[th].items)
                     ELSE Err("CorruptData")
\* What from_bytes does on such bytes: it panics.
C26_DecodeFailurePanics ==
  \A th \in Threads :
    (Done(th, "from_bytes") /\ decode_from_slice(call[th].items).kind # "Ok")
      => result[th] = Err("Panic")
C26_Witness ==
  \E th \in Threads :
    /\ Done(th, "from_bytes")
    /\ call[th].items = <<251, 0>>
    /\ result[th].kind = "Panic"

Scans == {"table", "range", "multimap_get", "multimap_table"}

\* C27: every method surfaces failures. When the engine reported a failure
\* for an entry while a scan iterated, the scan does not return Ok.
C27_ScanSurfacesFailure ==
  \A th \in Threads :
    (pc[th] = "done" /\ call[th].op \in Scans /\ loc[th].failed # {})
      => result[th].kind # "Ok"
\* What the scans do: a scan that goes on to its end returns Ok, the failed
\* entries left out.
C27_FailedEntriesOmitted ==
  \A th \in Threads :
    (pc[th] = "done" /\ call[th].op \in Scans /\ loc[th].failed # {}
       /\ result[th].kind = "Ok") =>
      /\ call[th].op \in {"table", "range"} =>
           \A k \in loc[th].failed :
             result[th].val[k] = None /\ ReadTable(th).rows[k] # None
      /\ call[th].op = "multimap_table" =>
           \A k \in loc[th].failed :
             result[th].val[k] = {} /\ loc[th].snap.multi[call[th].t].rows[k] # {}
      /\ call[th].op = "multimap_get" =>
           /\ result[th].val \cap loc[th].failed = {}
           /\ loc[th].failed \subseteq loc[th].snap.multi[call[th].t].rows[call[th].k]
\* A table() of two entries that returns Ok with one of them.
C27_Witness ==
  \E th \in Threads :
    /\ Returned(th, "table", "Ok")
    /\ KeysOf(ReadTable(th)) = Keys
    /\ Cardinality(loc[th].failed) = 1
    /\ Cardinality({k \in Keys : result[th].val[k] # None}) = 1

C28_WitnessRace ==
  /\ pc[Reader] = "rt_commit"
  /\ ~pre[Reader].db.plain[call[Reader].t].exists
  /\ KeysOf(db.plain[call[Reader].t]) = Keys
C29_MultimapReadOfMissing ==
  \A th \in Threads :
    (pc[th] = "done" /\ call[th].op \in MultiReadOps
       /\ ~pre[th].db.multi[call[th].t].exists /\ result[th].kind # "EngineErr") =>
      result[th] = Ok(IF call[th].op = "multimap_get" THEN {} ELSE EmptyMRows)
\* What the multimap reads, and the clear_multimap_table that reads through
\* multimap_table, do on such a table: they fail with TableDoesNotExist, and
\* the table is not created.
C29_MissingMultimapFails ==
  \A th \in Threads :
    (pc[th] = "done" /\ call[th].op \in MultiReadOps \cup {"clear_multimap_table"}
       /\ ~pre[th].db.multi[call[th].t].exists /\ result[th].kind # "EngineErr") =>
      /\ result[th].kind = "TableDoesNotExist"
      /\ db = pre[th].db
C29_Witness ==
  \E th \in Threads :
    /\ Returned(th, "multimap_get", "TableDoesNotExist")
    /\ db.multi[call[th].t] = NoMTable
C29_WitnessClear ==
  \E th \in Threads :
    /\ Returned(th, "clear_multimap_table", "TableDoesNotExist")
    /\ db.multi[call[th].t] = NoMTable

\* C30: savepoint() and clear_savepoints() change no data. A savepoint() that
\* returned Ok added one entry to the index, under an id the index did not
\* hold, kept every other entry, and left every table as it was;
\* clear_savepoints() leaves the index empty and every table as it was. A
\* savepoint() that failed changed neither.
C30_SavepointFrame ==
  \A th \in Threads :
    /\ Returned(th, "savepoint", "Ok") =>
         /\ db = pre[th].db
         /\ result[th].val \notin DOMAIN pre[th].sp
         /\ DOMAIN savepoints = DOMAIN pre[th].sp \cup {result[th].val}
         /\ \A i \in DOMAIN pre[th].sp : savepoints[i] = pre[th].sp[i]
         /\ savepoints[result[th].val] = db
    /\ (Done(th, "savepoint") /\ result[th].kind # "Ok") =>
         (db = pre[th].db /\ savepoints = pre[th].sp)
    /\ Done(th, "clear_savepoints") =>
         (result[th].kind = "Ok" /\ db = pre[th].db /\ savepoints = NoSavepoints)
\* A savepoint() taken over a store with entries, next to a savepoint held.
C30_Witness ==
  \E th \in Threads :
    /\ Returned(th, "savepoint", "Ok")
    /\ DOMAIN pre[th].sp # {}
    /\ Cardinality(DOMAIN savepoints) = Cardinality(DOMAIN pre[th].sp) + 1
    /\ \E t \in PlainTables : KeysOf(db.plain[t]) # {}
\* A clear_savepoints() of an index with entries over a store with entries.
C30_WitnessClear ==
  \E th \in Threads :
    /\ Done(th, "clear_savepoints")
    /\ DOMAIN pre[th].sp # {}
    /\ savepoints = NoSavepoints
    /\ \E t \in PlainTables : KeysOf(db.plain[t]) # {}

TableOps == PlainReadOps \cup MultiReadOps \cup PlainWriteOps \cup MultiWriteOps
              \cup {"delete_table", "delete_multimap_table"}

\* C31: tables and savepoints are orthogonal. While a table or multimap
\* method runs and when it has returned, with Ok or with a failure, the
\* savepoint index is what it was at the call; and a method on a plain table
\* leaves every multimap table, a method on a multimap table every plain
\* table, as it was at the call.
C31_Orthogonal ==
  \A th \in Threads :
    call[th].op \in TableOps =>
      /\ savepoints = pre[th].sp
      /\ call[th].t \in PlainTables => db.multi = pre[th].db.multi
      /\ call[th].t \in MultiTables => db.plain = pre[th].db.plain
\* A remove that took an entry from the plain table while savepoints are
\* held and the multimap table holds values.
C31_Witness ==
  \E th \in Threads :
    /\ Returned(th, "remove", "Ok")
    /\ db.plain # pre[th].db.plain
    /\ DOMAIN savepoints # {}
    /\ \E t \in MultiTables, k \in Keys : db.multi[t].rows[k] # {}
\* A failing update and a table-creating get while savepoints are held.
C31_WitnessFailing ==
  \E th \in Threads :
    /\ Returned(th, "update", "NotFound")
    /\ DOMAIN savepoints # {}
C31_WitnessRead ==
  \E th \in Threads :
    /\ Returned(th, "get", "Ok")
    /\ db # pre[th].db
    /\ DOMAIN savepoints # {}

\* C32: the ids of the savepoint index are always 0, 1, .., n-1 for the n
\* savepoints held. So a savepoint() that returns Ok returns the number of
\* savepoints held at the call (0 on an empty index), and after a
\* load_savepoint(k) that returned Ok the index holds 0..k, the next id
\* being k+1.
C32_IdsContiguous ==
  /\ DOMAIN savepoints = 0 .. (Cardinality(DOMAIN savepoints) - 1)
  /\ \A th \in Threads :
       /\ Returned(th, "savepoint", "Ok") =>
            result[th].val = Cardinality(DOMAIN pre[th].sp)
       /\ Returned(th, "load_savepoint", "Ok") =>
            /\ DOMAIN savepoints = 0 .. call[th].k
            /\ NextKey(savepoints) = call[th].k + 1
\* A savepoint() returning 1 after a load_savepoint(0) had removed id 1.
C32_Witness ==
  \E th \in Threads :
    /\ Returned(th, "savepoint", "Ok")
    /\ result[th].val = 1
    /\ 1 \in removed
    /\ DOMAIN savepoints = {0, 1}
\* A load_savepoint(0) that removed a later savepoint.
C32_WitnessLoad ==
  \E th \in Threads :
    /\ Returned(th, "load_savepoint", "Ok")
    /\ call[th].k = 0
    /\ Cardinality(DOMAIN pre[th].sp) = MaxSavepoints
    /\ DOMAIN savepoints = {0}

\* C33: a failing savepoint() or load_savepoint(id) leaves the savepoint
\* index as it was at the call. Until the method has returned Ok the index is
\* unchanged: no id is added before savepoint()'s commit, and no later
\* savepoint is removed before the restore transaction has committed.
C33_FailureKeepsIndex ==
  \A th \in Threads :
    (call[th].op \in {"savepoint", "load_savepoint"}
       /\ ~(pc[th] = "done" /\ result[th].kind = "Ok")) =>
      savepoints = pre[th].sp
\* A load_savepoint that failed at its commit, the restore made in its
\* transaction lost, while a later savepoint is held.
C33_Witness ==
  \E th \in Threads :
    /\ Returned(th, "load_savepoint", "EngineErr")
    /\ loc[th].lost
    /\ \E i \in DOMAIN savepoints : i > call[th].k
\* A savepoint() that failed after the engine's savepoint was taken.
C33_WitnessSavepoint ==
  \E th \in Threads :
    /\ Returned(th, "savepoint", "EngineErr")
    /\ ntx[th].w = 1
    /\ DOMAIN savepoints # {}

\* What C34 says of every state: a call about to begin a write transaction
\* holds none and finds the writer slot free, no call begins a second write
\* transaction, and a call that has returned, by commit, by a failure of the
\* engine or by update's NotFound, holds no write transaction.
WriterSlotReleased ==
  \A th \in Threads :
    /\ pc[th] \in {"begin_write", "rt_begin_write"} => writer = NoThread
    /\ ntx[th].w <= 1
    /\ pc[th] \in {"idle", "done"} => writer # th

\* C34: no method begins a write transaction while it holds one, and every
\* method releases its write transaction on every exit; so a call that
\* reaches begin_write acquires the writer slot unless the engine fails, and
\* every call that is begun returns.
C34_NoSelfDeadlock ==
  /\ []WriterSlotReleased
  /\ (pc[Caller] \in {"begin_write", "rt_begin_write"})
       ~> (writer = Caller \/ (pc[Caller] = "done" /\ result[Caller].kind = "EngineErr"))
  /\ (pc[Caller] # "idle") ~> (pc[Caller] = "done")
\* An update that returned NotFound out of its write transaction, the slot
\* free again.
C34_Witness ==
  \E th \in Threads :
    /\ Returned(th, "update", "NotFound")
    /\ ntx[th].w = 1
    /\ writer = NoThread
\* clear_multimap_table in its read transaction while it holds the writer slot.
C34_WitnessClear ==
  \E th \in Threads :
    /\ call[th].op = "clear_multimap_table" /\ pc[th] = "open"
    /\ ntx[th] = [r |-> 1, w |-> 1]
    /\ writer = th
\* A read creating its table: its write transaction begun after its read
\* transaction found the table missing.
C34_WitnessRead ==
  \E th \in Threads :
    /\ call[th].op \in PlainReadOps /\ pc[th] = "rt_create"
    /\ writer = th

====
